---- MODULE Spec2Model ----
(***************************************************************************)
(* Model of the weather forecasting core of env_danger_pred:               *)
(*   WeatherPredictor (src/weather_prediction.py),                         *)
(*   DataLoader.clean_data (src/data_loader.py),                           *)
(*   DataAnalyzer.analyze_30day_data (src/data_analyzer.py).               *)
(*                                                                         *)
(* Numbers.  Every cell of a table is a pair <<num, den>>: the rational    *)
(* num/den in lowest terms with den > 0, or NaN == <<0, 0>> for a missing  *)
(* value.  Observations are whole degrees / percent.  Three column         *)
(* families hold a value that is not rational and are stored through an    *)
(* injective encoding: a *_std_w cell holds the square of the standard     *)
(* deviation (the sample variance), a *_sin / *_cos cell holds the pair    *)
(* <<k, p>> of the angle 2*pi*k/p (p = 1461 stands for 4 * 365.25).        *)
(* A date is the number of days since 2024-12-31 (1 = 2025-01-01).         *)
(***************************************************************************)
EXTENDS Integers, Sequences, FiniteSets, TLC

----------------------------------------------------------------------------
(* Bounds of the model *)

\* longest input series handed to predict_weather
MaxLen == 15
\* largest days_ahead
MaxDays == 2
\* longest date range asked of load_data_for_date_range, in days back
MaxRange == 3
\* longest series of the feature-table specification
MaxFeatLen == 3
\* longest weight vector of the weight specification
MaxWeightLen == 5
\* longest table handed to clean_data
MaxCleanLen == 4

----------------------------------------------------------------------------
(* Rational arithmetic on cells *)

NaN == <<0, 0>>

IsNaN(c) == c[2] = 0

Abs(x) == IF x < 0 THEN -x ELSE x

Max2(a, b) == IF a > b THEN a ELSE b

Min2(a, b) == IF a < b THEN a ELSE b

RECURSIVE GCD(_, _)
GCD(a, b) == IF b = 0 THEN a ELSE GCD(b, a % b)

\* the rational n/d (d # 0) in lowest terms with a positive denominator
Rat(n, d) ==
    LET s == IF d < 0 THEN -1 ELSE 1
        g == GCD(Abs(n), Abs(d))
    IN  <<(s * n) \div g, (s * d) \div g>>

Num(n) == <<n, 1>>

\* the sum of a sequence of integers, by halves
RECURSIVE SumSeq(_)
SumSeq(s) ==
    IF Len(s) = 0 THEN 0
    ELSE IF Len(s) = 1 THEN s[1]
    ELSE LET h == Len(s) \div 2
         IN  SumSeq(SubSeq(s, 1, h)) + SumSeq(SubSeq(s, h + 1, Len(s)))

RECURSIVE MaxSeq(_)
MaxSeq(s) == IF Len(s) = 1 THEN s[1] ELSE Max2(Head(s), MaxSeq(Tail(s)))

RECURSIVE MinSeq(_)
MinSeq(s) == IF Len(s) = 1 THEN s[1] ELSE Min2(Head(s), MinSeq(Tail(s)))

LCM(a, b) == (a \div GCD(a, b)) * b

\* a < b for two rationals
LessRat(a, b) ==
    LET L == LCM(a[2], b[2])
    IN  a[1] * (L \div a[2]) < b[1] * (L \div b[2])

AddRat(a, b) ==
    LET L == LCM(a[2], b[2])
    IN  Rat(a[1] * (L \div a[2]) + b[1] * (L \div b[2]), L)

RECURSIVE LCMSeq(_)
LCMSeq(s) ==
    IF Len(s) = 0 THEN 1
    ELSE IF Len(s) = 1 THEN s[1]
    ELSE LET h == Len(s) \div 2
         IN  LCM(LCMSeq(SubSeq(s, 1, h)), LCMSeq(SubSeq(s, h + 1, Len(s))))

\* the sum of rationals, over the least common denominator
SumRat(cells) ==
    LET L == LCMSeq([k \in 1..Len(cells) |-> cells[k][2]])
    IN  Rat(SumSeq([k \in 1..Len(cells) |-> cells[k][1] * (L \div cells[k][2])]), L)

NegRat(a) == <<-a[1], a[2]>>

SubRat(a, b) == AddRat(a, NegRat(b))

MulRat(a, b) ==
    LET g1 == GCD(Abs(a[1]), b[2])
        g2 == GCD(Abs(b[1]), a[2])
    IN  Rat((a[1] \div g1) * (b[1] \div g2), (a[2] \div g2) * (b[2] \div g1))

\* a / b for b # 0
DivRat(a, b) == MulRat(a, Rat(b[2], b[1]))

SquareRat(a) == MulRat(a, a)

AbsRat(a) == <<Abs(a[1]), a[2]>>

\* the integer values of a column without missing values
Ints(cells) == [k \in 1..Len(cells) |-> cells[k][1]]

----------------------------------------------------------------------------
(* Calendar of a date (days since 2024-12-31; the years 2025 and 2026) *)

DaysInYear == 365

MonthEnds == <<31, 59, 90, 120, 151, 181, 212, 243, 273, 304, 334, 365>>

DayOfYear(d) == ((d - 1) % DaysInYear) + 1

MonthOf(d) == CHOOSE m \in 1..12 :
                 /\ DayOfYear(d) <= MonthEnds[m]
                 /\ (m = 1 \/ DayOfYear(d) > MonthEnds[m - 1])

DayOfMonth(d) == IF MonthOf(d) = 1 THEN DayOfYear(d)
                 ELSE DayOfYear(d) - MonthEnds[MonthOf(d) - 1]

\* Monday = 0; 2025-01-01 is a Wednesday
DayOfWeek(d) == (d + 1) % 7

QuarterOf(d) == ((MonthOf(d) - 1) \div 3) + 1

YearOf(d) == 2025 + ((d - 1) \div DaysInYear)

----------------------------------------------------------------------------
(* Tables (pandas DataFrame): the ordered column names, the number of      *)
(* rows, and one sequence of cells per column.  A column name is a triple  *)
(* <<quantity, family, window>>: temp_lag_7 is <<"temperature","lag",7>>.  *)

DateCol == <<"date", "raw", 0>>
TempCol == <<"temperature", "raw", 0>>
HumCol == <<"humidity", "raw", 0>>

RawColumns == <<DateCol, TempCol, HumCol>>

Range(s) == {s[k] : k \in 1..Len(s)}

\* the table of a series given as a sequence of rows [date, temperature, humidity]
Frame(rows) ==
    [columns |-> RawColumns,
     nrows   |-> Len(rows),
     col     |-> [c \in Range(RawColumns) |->
                    [k \in 1..Len(rows) |->
                        IF c = DateCol THEN Num(rows[k].date)
                        ELSE IF c = TempCol THEN Num(rows[k].temperature)
                        ELSE Num(rows[k].humidity)]]]

\* pd.DataFrame()
EmptyFrame == [columns |-> <<>>, nrows |-> 0, col |-> <<>>]

\* a table is taken for empty only when it has no column
NoColumns(df) == Len(df.columns) = 0

\* DataFrame.empty
IsEmpty(df) == df.nrows = 0 \/ Len(df.columns) = 0

\* data.copy(): a new table with the same content
Copy(df) == [columns |-> df.columns, nrows |-> df.nrows, col |-> df.col]

RawOf(q) == <<q, "raw", 0>>

Lags == <<1, 2, 3, 5, 7, 10, 14>>
MaWindows == <<3, 5, 7, 10, 14, 21>>
StatWindows == <<3, 7, 14>>
RankWindows == <<7, 14, 30>>
TrendWindows == <<7, 14>>
ChangeLags == <<1, 3>>

CalendarColumns ==
    << <<"cal", "day_of_year", 0>>, <<"cal", "month", 0>>, <<"cal", "day", 0>>,
       <<"cal", "day_of_week", 0>>, <<"cal", "quarter", 0>>,
       <<"cal", "season_sin", 0>>, <<"cal", "season_cos", 0>>,
       <<"cal", "month_sin", 0>>, <<"cal", "month_cos", 0>>,
       <<"cal", "week_sin", 0>>, <<"cal", "week_cos", 0>> >>

\* the columns of one family in the order the code creates them:
\* for each window, the temperature column and then the humidity column
RECURSIVE Interleaved(_, _)
Interleaved(family, windows) ==
    IF windows = <<>> THEN <<>>
    ELSE << <<"temperature", family, Head(windows)>>,
            <<"humidity", family, Head(windows)>> >>
         \o Interleaved(family, Tail(windows))

\* the columns of one family, all windows of one quantity
OfQuantity(q, family, windows) ==
    [k \in 1..Len(windows) |-> <<q, family, windows[k]>>]

InteractionColumns ==
    << <<"temp_humidity", "interaction", 0>>, <<"temp_humidity", "ratio", 0>> >>

\* the columns create_advanced_features adds, in creation order
AddedColumns ==
    CalendarColumns
    \o Interleaved("lag", Lags)
    \o Interleaved("ma", MaWindows)
    \o Interleaved("median", StatWindows)
    \o Interleaved("std", StatWindows)
    \o Interleaved("range", StatWindows)
    \o Interleaved("change", ChangeLags)
    \o Interleaved("rank", RankWindows)
    \o InteractionColumns
    \o Interleaved("trend", TrendWindows)

----------------------------------------------------------------------------
(* Feature engineering: WeatherPredictor.create_advanced_features *)

\* Series.shift(lag): the value lag rows earlier, missing in the first lag rows
Shift(cells, lag) ==
    [k \in 1..Len(cells) |-> IF k > lag THEN cells[k - lag] ELSE NaN]

\* Series.diff(lag): the value minus the value lag rows earlier
Diff(cells, lag) ==
    [k \in 1..Len(cells) |->
        IF k > lag THEN Num(cells[k][1] - cells[k - lag][1]) ELSE NaN]

\* expanding(): every row up to k
WindowFromStart(y, k, window) == SubSeq(y, 1, k)

\* rolling(window, min_periods=1): the rows max(first, k-window+1)..k
Window(y, k, window) == SubSeq(y, Max2(1, k - window + 1), k)

Mean(w) == Rat(SumSeq(w), Len(w))

Median(w) ==
    LET srt == SortSeq(w, LAMBDA a, b : a < b)
        m   == Len(w)
    IN  IF m % 2 = 1 THEN Num(srt[(m + 1) \div 2])
        ELSE Rat(srt[m \div 2] + srt[(m \div 2) + 1], 2)

\* rolling std (ddof = 1), stored as its square; missing for a single value
Variance(w) ==
    LET m  == Len(w)
        sq == [k \in 1..m |-> w[k] * w[k]]
    IN  IF m < 2 THEN NaN
        ELSE Rat(m * SumSeq(sq) - SumSeq(w) * SumSeq(w), m * (m - 1))

Spread(w) == Num(MaxSeq(w) - MinSeq(w))

\* rolling rank(pct=True): average rank of the window's last value / count
RankPct(w) ==
    LET m    == Len(w)
        x    == w[m]
        less == Cardinality({k \in 1..m : w[k] < x})
        same == Cardinality({k \in 1..m : w[k] = x})
    IN  Rat(2 * less + same + 1, 2 * m)

\* np.polyfit(range(len(x)), x, 1)[0] if len(x) > 1 else 0
TrendSlope(w) ==
    LET m   == Len(w)
        xs  == [k \in 1..m |-> k - 1]
        xy  == [k \in 1..m |-> (k - 1) * w[k]]
        xx  == [k \in 1..m |-> (k - 1) * (k - 1)]
    IN  IF m > 1
        THEN Rat(m * SumSeq(xy) - SumSeq(xs) * SumSeq(w),
                 m * SumSeq(xx) - SumSeq(xs) * SumSeq(xs))
        ELSE Num(0)

\* the calendar features of the date d, by column
CalendarFeature(name, d) ==
    CASE name = "day_of_year" -> Num(DayOfYear(d))
      [] name = "month"       -> Num(MonthOf(d))
      [] name = "day"         -> Num(DayOfMonth(d))
      [] name = "day_of_week" -> Num(DayOfWeek(d))
      [] name = "quarter"     -> Num(QuarterOf(d))
      [] name = "season_sin"  -> <<4 * DayOfYear(d), 1461>>
      [] name = "season_cos"  -> <<4 * DayOfYear(d), 1461>>
      [] name = "month_sin"   -> <<MonthOf(d), 12>>
      [] name = "month_cos"   -> <<MonthOf(d), 12>>
      [] name = "week_sin"    -> <<DayOfYear(d), 7>>
      [] name = "week_cos"    -> <<DayOfYear(d), 7>>

\* one rolling statistic of a window of values
RollingStat(family, w) ==
    CASE family = "ma"     -> Mean(w)
      [] family = "median" -> Median(w)
      [] family = "std"    -> Variance(w)
      [] family = "range"  -> Spread(w)
      [] family = "rank"   -> RankPct(w)
      [] family = "trend"  -> TrendSlope(w)

\* the column c as the code assigns it, before the missing values are filled
NewColumn(c, df) ==
    LET n == df.nrows
        d == Ints(df.col[DateCol])
        t == Ints(df.col[TempCol])
        h == Ints(df.col[HumCol])
    IN  CASE c[1] = "cal" -> [k \in 1..n |-> CalendarFeature(c[2], d[k])]
          [] c[2] = "lag" -> Shift(df.col[RawOf(c[1])], c[3])
          [] c[2] = "change" -> Diff(df.col[RawOf(c[1])], c[3])
          [] c[2] = "interaction" -> [k \in 1..n |-> Rat(t[k] * h[k], 100)]
          [] c[2] = "ratio" -> [k \in 1..n |-> Rat(t[k], h[k] + 1)]
          [] OTHER ->
               LET y == Ints(df.col[RawOf(c[1])])
               IN  [k \in 1..n |-> RollingStat(c[2], Window(y, k, c[3]))]

\* the columns of a table after the assignment of the new columns
ColumnsAfter(columns, added) ==
    columns \o SelectSeq(added, LAMBDA c : c \notin Range(columns))

\* all assignments df[...] = ... of create_advanced_features
WithFeatures(df) ==
    [columns |-> ColumnsAfter(df.columns, AddedColumns),
     nrows   |-> df.nrows,
     col     |-> [c \in Range(df.columns) \cup Range(AddedColumns) |->
                     IF c \in Range(AddedColumns) THEN NewColumn(c, df)
                     ELSE df.col[c]]]

\* Series.bfill(): a missing value takes the next value that is present
BFill(cells) ==
    [k \in 1..Len(cells) |->
        IF ~IsNaN(cells[k]) THEN cells[k]
        ELSE IF \E j \in k..Len(cells) : ~IsNaN(cells[j])
             THEN cells[CHOOSE j \in k..Len(cells) :
                          /\ ~IsNaN(cells[j])
                          /\ \A i \in k..(j - 1) : IsNaN(cells[i])]
             ELSE NaN]

\* Series.ffill(): a missing value takes the last value that is present
FFill(cells) ==
    [k \in 1..Len(cells) |->
        IF ~IsNaN(cells[k]) THEN cells[k]
        ELSE IF \E j \in 1..k : ~IsNaN(cells[j])
             THEN cells[CHOOSE j \in 1..k :
                          /\ ~IsNaN(cells[j])
                          /\ \A i \in (j + 1)..k : IsNaN(cells[i])]
             ELSE NaN]

\* df.bfill().ffill()
FillMissing(df) ==
    [columns |-> df.columns,
     nrows   |-> df.nrows,
     col     |-> [c \in DOMAIN df.col |-> FFill(BFill(df.col[c]))]]

(* Objects.  Python passes a table by reference: the heap is the sequence  *)
(* of live tables and a reference is an index into it.  An operation on    *)
(* tables takes the heap and yields the new heap and the returned          *)
(* reference.                                                              *)

Alloc(heap, df) == [heap |-> Append(heap, df), ref |-> Len(heap) + 1]

\* df = data (no copy): the same object under a second name
SameObject(heap, data) == [heap |-> heap, ref |-> data]

\* df = data.copy()
DataFrameCopy(heap, data) == Alloc(heap, Copy(heap[data]))

\* create_advanced_features(data): the new columns are assigned in place to
\* the object df names; df.bfill().ffill() yields a new table, returned
create_advanced_features(heap, data) ==
    LET c  == DataFrameCopy(heap, data)
        h1 == [c.heap EXCEPT ![c.ref] = WithFeatures(c.heap[c.ref])]
    IN  Alloc(h1, FillMissing(h1[c.ref]))

----------------------------------------------------------------------------
(* Recency weights: WeatherPredictor.calculate_time_weights.               *)
(* A weight vector is kept as the decay factor and the powers the loop     *)
(* assigns: weight k = decay^power[k] / sum_j decay^power[j].  WeightCell  *)
(* gives its exact value after the normalisation.                          *)

\* decay_factor=0.92 of predict_weather, as a fraction
DecayNum == 23
DecayDen == 25

\* the distance counted from the oldest row
DistanceFromOldest(n_samples, k) == k - 1

\* time_distance = n_samples - 1 - i of the 0-based row i = k - 1
TimeDistance(n_samples, k) == n_samples - k

calculate_time_weights(n_samples, decay) ==
    [decay |-> decay,
     power |-> [k \in 1..n_samples |-> TimeDistance(n_samples, k)]]

RECURSIVE Pow(_, _)
Pow(b, e) == IF e = 0 THEN 1 ELSE b * Pow(b, e - 1)

\* decay^power[k] over the common denominator q^E, E the largest power
WeightNumerator(w, k) ==
    LET E == MaxSeq(w.power)
    IN  Pow(w.decay[1], w.power[k]) * Pow(w.decay[2], E - w.power[k])

\* np.sum(weights) over the same denominator
WeightTotal(w) ==
    SumSeq([k \in 1..Len(w.power) |-> WeightNumerator(w, k)])

\* weights[k] after weights = weights / np.sum(weights)
WeightCell(w, k) == Rat(WeightNumerator(w, k), WeightTotal(w))

----------------------------------------------------------------------------
(* Training: create_xgboost_model, train_weighted_xgboost *)

\* the feature columns of one family: all temperature windows, then all
\* humidity windows
Grouped(family, windows) ==
    OfQuantity("temperature", family, windows)
    \o OfQuantity("humidity", family, windows)

\* feature_cols of predict_weather
feature_cols ==
    CalendarColumns
    \o Grouped("lag", Lags)
    \o Grouped("ma", MaWindows)
    \o Grouped("median", StatWindows)
    \o Grouped("std", StatWindows)
    \o Grouped("range", StatWindows)
    \o Grouped("change", ChangeLags)
    \o Grouped("rank", RankWindows)
    \o InteractionColumns
    \o Grouped("trend", TrendWindows)

\* the rows a model or a scaler was fitted on: X = data[feature_cols] is a
\* function of the date, temperature and humidity columns of data
TrainingRows(df) ==
    [date        |-> Ints(df.col[DateCol]),
     temperature |-> Ints(df.col[TempCol]),
     humidity    |-> Ints(df.col[HumCol])]

NoRows == [date |-> <<>>, temperature |-> <<>>, humidity |-> <<>>]

NoWeights == [decay |-> <<0, 1>>, power |-> <<>>]

\* self.temp_model = None
NoModel == [target |-> "none", n_estimators |-> 0, max_depth |-> 0,
            n_features |-> 0, fit_on |-> NoRows, sample_weight |-> NoWeights]

\* RobustScaler(), not fitted
NewScaler == [fitted |-> FALSE, n_features_in |-> 0, fit_on |-> NoRows]

NoImportance == [temperature |-> <<>>, humidity |-> <<>>]

\* __init__ with self.is_trained = True
__init__Trained ==
    [temp_model         |-> NoModel,
     humidity_model     |-> NoModel,
     scaler             |-> NewScaler,
     is_trained         |-> TRUE,
     feature_importance |-> NoImportance]

\* WeatherPredictor.__init__: the attributes of a new predictor
__init__ ==
    [temp_model         |-> NoModel,
     humidity_model     |-> NoModel,
     scaler             |-> NewScaler,
     is_trained         |-> FALSE,
     feature_importance |-> NoImportance]

create_xgboost_model(target_type) ==
    IF target_type = "temperature"
    THEN [target |-> target_type, n_estimators |-> 300, max_depth |-> 6]
    ELSE [target |-> target_type, n_estimators |-> 250, max_depth |-> 5]

\* fit_transform that leaves the scaler as RobustScaler() made it
ScalerUnfitted(df, cols) == NewScaler

\* self.scaler.fit_transform(X): the scaler is fitted anew on X
ScalerFit(df, cols) ==
    [fitted |-> TRUE, n_features_in |-> Len(cols), fit_on |-> TrainingRows(df)]

\* train_weighted_xgboost: the fitted model and the scaler it leaves behind
train_weighted_xgboost(df, target_col, cols, w) ==
    LET m == create_xgboost_model(target_col)
    IN  [scaler |-> ScalerFit(df, cols),
         model  |-> [target        |-> m.target,
                     n_estimators  |-> m.n_estimators,
                     max_depth     |-> m.max_depth,
                     n_features    |-> Len(cols),
                     fit_on        |-> TrainingRows(df),
                     sample_weight |-> w]]

\* self.scaler.transform(X): NotFittedError before any fit, ValueError when
\* X has not the width the scaler was fitted on
TransformError(sc, width) ==
    IF ~sc.fitted THEN "NotFittedError"
    ELSE IF width # sc.n_features_in THEN "ValueError"
    ELSE ""

\* what _evaluate_model_performance does: the labels it displays, or the
\* exception it raises; it returns None in every case
Evaluated(shown) == [kind |-> "return", shown |-> shown, error |-> ""]

EvaluationRaised(error) == [kind |-> "raise", shown |-> <<>>, error |-> error]

EvaluationMetrics == <<"temp_r2", "temp_mae", "humidity_r2", "humidity_mae">>

\* the body after the is_trained test: data[feature_cols], scaler.transform,
\* the two predictions and the four figures
EvaluateBody(sc, df, cols) ==
    IF ~(Range(cols) \subseteq Range(df.columns))
    THEN EvaluationRaised("KeyError")
    ELSE IF TransformError(sc, Len(cols)) # ""
    THEN EvaluationRaised(TransformError(sc, Len(cols)))
    ELSE Evaluated(EvaluationMetrics)

\* _evaluate_model_performance without its first two lines
EvaluateUnguarded(trained, sc, df, cols) == EvaluateBody(sc, df, cols)

\* if not self.is_trained: return
_evaluate_model_performance(trained, sc, df, cols) ==
    IF ~trained THEN Evaluated(<<>>) ELSE EvaluateBody(sc, df, cols)

----------------------------------------------------------------------------
(* The feature row of a forecast date: _create_prediction_features *)

\* recent_data = data.tail(14); the lag block needs this many rows
MinRows == 14

\* series.iloc[-k]
FromEnd(cells, k) == cells[Len(cells) - k + 1]

\* the eleven calendar entries of the forecast date; the weekly pair is
\* computed from day_of_week
PredictionCalendar(pred_date) ==
    << Num(DayOfYear(pred_date)), Num(MonthOf(pred_date)),
       Num(DayOfMonth(pred_date)), Num(DayOfWeek(pred_date)),
       Num(QuarterOf(pred_date)),
       <<4 * DayOfYear(pred_date), 1461>>, <<4 * DayOfYear(pred_date), 1461>>,
       <<MonthOf(pred_date), 12>>, <<MonthOf(pred_date), 12>>,
       <<DayOfWeek(pred_date), 7>>, <<DayOfWeek(pred_date), 7>> >>

\* the lag entries of one quantity when recent_data has 14 rows
RecentLags(cells) == [k \in 1..Len(Lags) |-> FromEnd(cells, Lags[k])]

\* the entries appended when the table has fewer than 14 rows:
\* [avg_temp] * 14 + [avg_humidity] * 14
ShortLagBlock(df) ==
    [k \in 1..(2 * MinRows) |->
        IF k <= MinRows THEN Mean(Ints(df.col[TempCol]))
        ELSE Mean(Ints(df.col[HumCol]))]

LagBlock(df) ==
    IF Min2(df.nrows, MinRows) >= MinRows
    THEN RecentLags(df.col[TempCol]) \o RecentLags(df.col[HumCol])
    ELSE ShortLagBlock(df)

\* the value computed from the raw column when a feature column is absent
Fallback(c, df) ==
    LET y == Ints(df.col[RawOf(c[1])])
    IN  CASE c[2] \in {"ma", "median", "std", "range"} -> RollingStat(c[2], y)
          [] c[2] = "change" -> FromEnd(Diff(df.col[RawOf(c[1])], c[3]), 1)
          [] c[2] = "rank" -> RankPct(Window(y, Len(y), c[3]))
          [] c[2] = "trend" ->
               [k \in 1..Len(y) |-> TrendSlope(Window(y, k, c[3]))]

\* data[c].iloc[-1] if c in data.columns else <fallback>
LastOf(c, df) ==
    IF c \in Range(df.columns) THEN FromEnd(df.col[c], 1)
    ELSE IF c = InteractionColumns[1]
         THEN Rat(FromEnd(df.col[TempCol], 1)[1] * FromEnd(df.col[HumCol], 1)[1], 100)
    ELSE IF c = InteractionColumns[2]
         THEN Rat(FromEnd(df.col[TempCol], 1)[1], FromEnd(df.col[HumCol], 1)[1] + 1)
    ELSE Fallback(c, df)

\* the columns read by .iloc[-1], in the order the code appends them
TailColumns ==
    Grouped("ma", MaWindows)
    \o Grouped("median", StatWindows)
    \o Grouped("std", StatWindows)
    \o Grouped("range", StatWindows)
    \o Grouped("change", ChangeLags)
    \o Grouped("rank", RankWindows)
    \o InteractionColumns
    \o Grouped("trend", TrendWindows)

_create_prediction_features(df, pred_date) ==
    PredictionCalendar(pred_date)
    \o LagBlock(df)
    \o [k \in 1..Len(TailColumns) |-> LastOf(TailColumns[k], df)]

----------------------------------------------------------------------------
(* One forecast: clamp and round *)

TempLow == -20
TempHigh == 40
HumLow == 0
HumHigh == 100

\* the lower limit alone
ClampLowerOnly(low, high, pred) == Max2(100 * low, pred)

\* max(low, min(high, pred)) on a prediction given in hundredths
Clamp(low, high, pred) == Max2(100 * low, Min2(100 * high, pred))

\* round(x, 1) of a value in hundredths: the nearest tenth, ties to even
RoundTenths(x) ==
    LET lo == (x - (x % 10)) \div 10
        r  == x % 10
    IN  IF r < 5 THEN Rat(lo, 10)
        ELSE IF r > 5 THEN Rat(lo + 1, 10)
        ELSE IF lo % 2 = 0 THEN Rat(lo, 10) ELSE Rat(lo + 1, 10)

\* the row appended to predictions
ForecastRow(pred_date, pred_temp, pred_humidity) ==
    [date          |-> pred_date,
     temperature   |-> RoundTenths(Clamp(TempLow, TempHigh, pred_temp)),
     humidity      |-> RoundTenths(Clamp(HumLow, HumHigh, pred_humidity)),
     month         |-> MonthOf(pred_date),
     year          |-> YearOf(pred_date),
     is_prediction |-> TRUE]

----------------------------------------------------------------------------
(* Statistics of a series (pandas Series, numpy array).  A Series handed   *)
(* to the outlier detectors is a record of its cells and a decimal         *)
(* exponent: the value of cell k is cells[k] * 10^(-exp10), so that values *)
(* a few 1e-11 apart can be written.  Positions are counted from 0.        *)

Series(cells, exp10) == [cells |-> cells, exp10 |-> exp10]

\* Series.dropna()
DropNa(cells) == SelectSeq(cells, LAMBDA c : ~IsNaN(c))

HasNaN(cells) == \E k \in 1..Len(cells) : IsNaN(cells[k])

\* Series.mean(): over the values present, missing when there is none
MeanRat(cells) ==
    LET present == DropNa(cells)
    IN  IF present = <<>> THEN NaN
        ELSE DivRat(SumRat(present), Num(Len(present)))

\* sum of (x - center)^2 over cells without missing values
SumSquares(cells, center) ==
    SumRat([k \in 1..Len(cells) |-> SquareRat(SubRat(cells[k], center))])

\* the variance with the divisor n (ddof = 0)
PopulationVariance(cells) ==
    LET present == DropNa(cells)
    IN  IF Len(present) < 2 THEN NaN
        ELSE DivRat(SumSquares(present, MeanRat(present)), Num(Len(present)))

\* Series.std() squared: ddof = 1, over the values present, missing when
\* fewer than two are present
SampleVariance(cells) ==
    LET present == DropNa(cells)
    IN  IF Len(present) < 2 THEN NaN
        ELSE DivRat(SumSquares(present, MeanRat(present)),
                    Num(Len(present) - 1))

\* the detectors take a standard deviation below 10^(-StdFloorExp) for zero
StdFloorExp == 10

RECURSIVE DivPow10(_, _)
DivPow10(x, k) == IF k = 0 THEN x ELSE DivPow10(x \div 10, k - 1)

\* std < 1e-10 for the variance var (> 0) of cells scaled by 10^(-exp10):
\* var * 10^(-2 exp10) < 10^(-2 StdFloorExp)
BelowStdFloor(var, exp10) ==
    IF exp10 >= StdFloorExp
    THEN var[1] < var[2] * Pow(10, 2 * (exp10 - StdFloorExp))
    ELSE var[1] <= DivPow10(var[2] - 1, 2 * (StdFloorExp - exp10))

\* abs((value - mean) / std) > threshold, std > 0
ZScoreAbove(value, mean, var, threshold) ==
    IF threshold[1] < 0 THEN TRUE
    ELSE LessRat(MulRat(SquareRat(threshold), var),
                 SquareRat(SubRat(value, mean)))

\* the members of a set of integers in ascending order
Ascending(S) ==
    [i \in 1..Cardinality(S) |->
        CHOOSE k \in S : Cardinality({j \in S : j < k}) = i - 1]

\* the positions counted from 1
OutlierLoopFromOne(cells, mean, var, threshold) ==
    Ascending({j \in 1..Len(cells) :
                  /\ ~IsNaN(cells[j])
                  /\ ZScoreAbove(cells[j], mean, var, threshold)})

\* the loop over enumerate(series): the positions appended to outliers
OutlierLoop(cells, mean, var, threshold) ==
    Ascending({k - 1 : k \in {j \in 1..Len(cells) :
                  /\ ~IsNaN(cells[j])
                  /\ ZScoreAbove(cells[j], mean, var, threshold)}})

\* DataAnalyzer._detect_series_outliers
_detect_series_outliers(series, threshold) ==
    LET series_clean == DropNa(series.cells)
        mean == MeanRat(series_clean)
        var  == SampleVariance(series_clean)
    IN  IF Len(series_clean) < 2 THEN <<>>
        ELSE IF var = Num(0) \/ IsNaN(var) \/ BelowStdFloor(var, series.exp10)
             THEN <<>>
        ELSE OutlierLoop(series.cells, mean, var, threshold)

\* utils.detect_outliers
detect_outliers(data, threshold) ==
    LET data_clean == DropNa(data.cells)
        mean == MeanRat(data_clean)
        var  == SampleVariance(data_clean)
    IN  IF Len(data.cells) < 2 THEN <<>>
        ELSE IF Len(data_clean) < 2 THEN <<>>
        ELSE IF var = Num(0) \/ IsNaN(var) \/ BelowStdFloor(var, data.exp10)
             THEN <<>>
        ELSE OutlierLoop(data.cells, mean, var, threshold)

(* Straight-line fit.  np.polyfit(x, y, 1) with x = 0, 1, ..., n-1.  When  *)
(* y holds a missing value the least-squares routine either answers with   *)
(* missing coefficients or fails to converge (LinAlgError), depending on   *)
(* the linear-algebra library: both outcomes are kept.                     *)

Line(slope, intercept) == [kind |-> "ok", slope |-> slope, intercept |-> intercept]

LinAlgError == [kind |-> "raise", slope |-> NaN, intercept |-> NaN]

\* the least-squares line through (k - 1, y[k]), y without missing value, n >= 2
LeastSquares(y) ==
    LET n   == Len(y)
        xs  == [k \in 1..n |-> Num(k - 1)]
        sx  == SumRat(xs)
        sy  == SumRat(y)
        sxy == SumRat([k \in 1..n |-> MulRat(xs[k], y[k])])
        sxx == SumRat([k \in 1..n |-> SquareRat(xs[k])])
        slope == DivRat(SubRat(MulRat(Num(n), sxy), MulRat(sx, sy)),
                        SubRat(MulRat(Num(n), sxx), SquareRat(sx)))
    IN  Line(slope, DivRat(SubRat(sy, MulRat(slope, sx)), Num(n)))

\* the outcomes of np.polyfit(range(len(y)), y, 1), len(y) >= 2
Polyfit(y) ==
    IF HasNaN(y) THEN {Line(NaN, NaN), LinAlgError}
    ELSE {LeastSquares(y)}

\* slope * x with the intercept left out
PredictedThroughOrigin(line, x) == MulRat(line.slope, Num(x))

\* y_pred = slope * x + intercept
Predicted(line, x) == AddRat(MulRat(line.slope, Num(x)), line.intercept)

\* 1 - (ss_res / ss_tot) without the test of ss_tot: 0 / 0 is missing
RSquaredUnguarded(data, line) ==
    LET ss_res == SumRat([k \in 1..Len(data) |->
                            SquareRat(SubRat(data[k], Predicted(line, k - 1)))])
        ss_tot == SumSquares(data, MeanRat(data))
    IN  IF ss_tot # Num(0) THEN SubRat(Num(1), DivRat(ss_res, ss_tot))
        ELSE NaN

\* 1 - (ss_res / ss_tot) if ss_tot != 0 else 0.0, for data without missing value
RSquaredOf(data, line) ==
    LET ss_res == SumRat([k \in 1..Len(data) |->
                            SquareRat(SubRat(data[k], Predicted(line, k - 1)))])
        ss_tot == SumSquares(data, MeanRat(data))
    IN  IF ss_tot # Num(0) THEN SubRat(Num(1), DivRat(ss_res, ss_tot))
        ELSE Num(0)

\* a function's outcome: a value, or an exception (with a blank value)
Value(v) == [kind |-> "ok", value |-> v, error |-> ""]

Exception(name, blank) == [kind |-> "raise", value |-> blank, error |-> name]

\* DataAnalyzer._calculate_r_squared: its outcomes.  A missing value makes
\* ss_res and ss_tot missing, ss_tot != 0 true, and the quotient missing.
_calculate_r_squared(data) ==
    IF Len(data) < 2 THEN {Value(Num(0))}
    ELSE {IF line.kind = "raise" THEN Exception("LinAlgError", NaN)
          ELSE IF HasNaN(data) THEN Value(NaN)
          ELSE Value(RSquaredOf(data, line)) : line \in Polyfit(data)}

\* round(x, digits): the nearest multiple of 10^(-digits), a tie to the even
\* one; a missing value stays missing
RoundRat(c, digits) ==
    IF IsNaN(c) THEN NaN
    ELSE LET n == c[1] * Pow(10, digits)
             q == n \div c[2]
             r == n % c[2]
         IN  IF 2 * r < c[2] THEN Rat(q, Pow(10, digits))
             ELSE IF 2 * r > c[2] THEN Rat(q + 1, Pow(10, digits))
             ELSE IF q % 2 = 0 THEN Rat(q, Pow(10, digits))
             ELSE Rat(q + 1, Pow(10, digits))

\* a > b on cells; a comparison with a missing value is false
GreaterRat(a, b) == ~IsNaN(a) /\ ~IsNaN(b) /\ LessRat(b, a)

\* the limits of temperature taken for both quantities
TemperatureLimits(quantity) ==
    [up |-> <<1, 10>>, strong |-> <<1, 2>>, medium |-> <<1, 5>>]

\* the limits of direction and strength: slope > up is rising, slope < -up
\* falling; abs(slope) > strong is strong, > medium is moderate
TrendLimits(quantity) ==
    IF quantity = "temperature"
    THEN [up |-> <<1, 10>>, strong |-> <<1, 2>>, medium |-> <<1, 5>>]
    ELSE [up |-> <<1, 2>>, strong |-> Num(2), medium |-> Num(1)]

\* slope >= 0 taken for rising
DirectionFromZero(slope, quantity) ==
    IF ~IsNaN(slope) /\ slope[1] >= 0 THEN "rising" ELSE "falling"

Direction(slope, quantity) ==
    IF GreaterRat(slope, TrendLimits(quantity).up) THEN "rising"
    ELSE IF GreaterRat(NegRat(TrendLimits(quantity).up), slope) THEN "falling"
    ELSE "stable"

Strength(slope, quantity) ==
    IF GreaterRat(AbsRat(slope), TrendLimits(quantity).strong) THEN "strong"
    ELSE IF GreaterRat(AbsRat(slope), TrendLimits(quantity).medium) THEN "moderate"
    ELSE "weak"

Significance(r_squared) ==
    IF GreaterRat(r_squared, <<7, 10>>) THEN "high"
    ELSE IF GreaterRat(r_squared, <<3, 10>>) THEN "moderate"
    ELSE "low"

NoTrend == [slope |-> NaN, direction |-> "", strength |-> "",
            r_squared |-> NaN, significance |-> ""]

\* one entry of _analyze_trends (the block of one quantity, len(values) > 1):
\* its outcomes
TrendEntry(values, quantity) ==
    {IF line.kind = "raise" \/ r2.kind = "raise" THEN Exception("LinAlgError", NoTrend)
     ELSE Value([slope        |-> RoundRat(line.slope, 3),
                 direction    |-> Direction(line.slope, quantity),
                 strength     |-> Strength(line.slope, quantity),
                 r_squared    |-> RoundRat(r2.value, 3),
                 significance |-> Significance(r2.value)]) :
        line \in Polyfit(values), r2 \in _calculate_r_squared(values)}

----------------------------------------------------------------------------
(* DataAnalyzer.analyze_30day_data.  The dictionary it returns is kept as  *)
(* the set of its sections and three maps from the path of a field         *)
(* ("temperature_analysis.mean") to its value: numbers (cells), labels     *)
(* (strings) and lists.  The labels are written in English: rising,        *)
(* falling, stable; strong, moderate, weak; high, moderate, low; positive, *)
(* negative.  Fields that hold a square root are stored through a          *)
(* sign-preserving square and are not rounded (rounding keeps a missing    *)
(* value missing and 0 at 0): a *std field holds the variance, a           *)
(* volatility or coefficient_of_variation field cv holds cv * |cv|, a      *)
(* correlation field r holds r * |r|.  A date is its day number.           *)

SectionNames ==
    {"basic_info", "temperature_analysis", "humidity_analysis",
     "monthly_analysis", "outlier_analysis", "trend_analysis",
     "correlation_analysis", "volatility_analysis"}

\* the column 'month' the loader adds
MonthCol == <<"cal", "month", 0>>

\* the table of a loaded series: rows of a date and two cells, with the
\* month of the date
LoadedFrame(rows) ==
    [columns |-> Append(RawColumns, MonthCol),
     nrows   |-> Len(rows),
     col     |-> [c \in Range(RawColumns) \cup {MonthCol} |->
                    [k \in 1..Len(rows) |->
                        IF c = DateCol THEN Num(rows[k].date)
                        ELSE IF c = TempCol THEN rows[k].temperature
                        ELSE IF c = HumCol THEN rows[k].humidity
                        ELSE Num(MonthOf(rows[k].date))]]]

RECURSIVE MergeAll(_)
MergeAll(fs) == IF fs = <<>> THEN <<>> ELSE Head(fs) @@ MergeAll(Tail(fs))

Part(numbers, labels, lists) ==
    [numbers |-> numbers, labels |-> labels, lists |-> lists]

MergeParts(parts) ==
    Part(MergeAll([k \in 1..Len(parts) |-> parts[k].numbers]),
         MergeAll([k \in 1..Len(parts) |-> parts[k].labels]),
         MergeAll([k \in 1..Len(parts) |-> parts[k].lists]))

\* the divisor of data_completeness: the 30 days of a full period
FullPeriod == 30

_get_basic_info(data) ==
    LET d == Ints(data.col[DateCol])
    IN  Part("basic_info.total_days" :> Num(data.nrows)
             @@ "basic_info.days_covered" :> Num(MaxSeq(d) - MinSeq(d) + 1)
             @@ "basic_info.data_completeness" :> Rat(data.nrows * 100, FullPeriod)
             @@ "basic_info.latest_date" :> Num(MaxSeq(d))
             @@ "basic_info.earliest_date" :> Num(MinSeq(d)),
             <<>>,
             "basic_info.date_range" :> <<MinSeq(d), MaxSeq(d)>>)

\* describe()['25%'], ['75%']: linear interpolation between the order
\* statistics around position (n - 1) * q
Quantile(cells, q) ==
    LET srt  == SortSeq(cells, LessRat)
        pos  == MulRat(Num(Len(cells) - 1), q)
        lo   == pos[1] \div pos[2]
        frac == SubRat(pos, Num(lo))
    IN  IF frac = Num(0) THEN srt[lo + 1]
        ELSE AddRat(srt[lo + 1], MulRat(frac, SubRat(srt[lo + 2], srt[lo + 1])))

\* std / mean * 100 (mean # 0) through the sign-preserving square
CvSquared(var, mean) ==
    IF IsNaN(var) \/ IsNaN(mean) THEN NaN
    ELSE LET q == DivRat(MulRat(var, Num(10000)), SquareRat(mean))
         IN  IF mean[1] < 0 THEN NegRat(q) ELSE q

\* the body shared by _analyze_temperature and _analyze_humidity
QuantityAnalysis(cells, quantity, section) ==
    LET data == DropNa(cells)
        srt  == SortSeq(data, LessRat)
        mean == MeanRat(data)
        var  == SampleVariance(data)
        slope == IF Len(data) > 1 THEN LeastSquares(data).slope ELSE Num(0)
        volatility == IF mean # Num(0) /\ ~IsNaN(mean) THEN CvSquared(var, mean)
                      ELSE Num(0)
        median == Quantile(data, <<1, 2>>)
    IN  IF Len(data) = 0
        THEN Part([f \in {section \o n : n \in
                      {".mean", ".std", ".min", ".max", ".median", ".q25", ".q75",
                       ".range", ".trend_slope", ".volatility"}} |-> Num(0)],
                  (section \o ".trend_direction") :> "stable"
                  @@ (section \o ".trend_strength") :> "weak",
                  <<>>)
        ELSE Part((section \o ".mean") :> RoundRat(mean, 1)
                  @@ (section \o ".std") :> var
                  @@ (section \o ".min") :> RoundRat(srt[1], 1)
                  @@ (section \o ".max") :> RoundRat(srt[Len(srt)], 1)
                  @@ (section \o ".median") :> RoundRat(median, 1)
                  @@ (section \o ".q25") :> RoundRat(Quantile(data, <<1, 4>>), 1)
                  @@ (section \o ".q75") :> RoundRat(Quantile(data, <<3, 4>>), 1)
                  @@ (section \o ".range") :> RoundRat(SubRat(srt[Len(srt)], srt[1]), 1)
                  @@ (section \o ".trend_slope") :> RoundRat(slope, 3)
                  @@ (section \o ".volatility") :> volatility,
                  (section \o ".trend_direction") :> Direction(slope, quantity)
                  @@ (section \o ".trend_strength") :> Strength(slope, quantity),
                  <<>>)

_analyze_temperature(data) ==
    QuantityAnalysis(data.col[TempCol], "temperature", "temperature_analysis")

_analyze_humidity(data) ==
    QuantityAnalysis(data.col[HumCol], "humidity", "humidity_analysis")

\* the rows of one month
RowsOfMonth(data, month) ==
    {k \in 1..data.nrows : data.col[MonthCol][k] = Num(month)}

\* the cells of a column in the rows of a set, in row order
CellsAt(cells, rows) == [i \in 1..Cardinality(rows) |-> cells[Ascending(rows)[i]]]

\* month_counts.index[0]: a month with the largest count
MostCommonMonths(data) ==
    {m \in 1..12 : /\ RowsOfMonth(data, m) # {}
                   /\ \A o \in 1..12 : Cardinality(RowsOfMonth(data, o))
                                          <= Cardinality(RowsOfMonth(data, m))}

\* month_stats[month]
MonthStats(data, month) ==
    LET rows == RowsOfMonth(data, month)
        at   == "monthly_analysis.month_stats." \o ToString(month)
        t    == CellsAt(data.col[TempCol], rows)
        h    == CellsAt(data.col[HumCol], rows)
    IN  (at \o ".count") :> Num(Cardinality(rows))
        @@ (at \o ".percentage") :> RoundRat(Rat(Cardinality(rows) * 100, data.nrows), 1)
        @@ (at \o ".temp_mean") :> RoundRat(MeanRat(t), 1)
        @@ (at \o ".humidity_mean") :> RoundRat(MeanRat(h), 1)
        @@ (at \o ".temp_std") :> SampleVariance(t)
        @@ (at \o ".humidity_std") :> SampleVariance(h)
        @@ ("monthly_analysis.month_distribution." \o ToString(month))
              :> Num(Cardinality(rows))

_analyze_monthly_patterns(data, primary_month) ==
    LET months == Ascending({m \in 1..12 : RowsOfMonth(data, m) # {}})
        counts == [i \in 1..Len(months) |->
                      Num(Cardinality(RowsOfMonth(data, months[i])))]
    IN  Part(MergeAll([i \in 1..Len(months) |-> MonthStats(data, months[i])])
             @@ "monthly_analysis.primary_month" :> Num(primary_month)
             @@ "monthly_analysis.most_common_month" :> Num(primary_month)
             @@ "monthly_analysis.month_count" :> Num(Len(months))
             @@ "monthly_analysis.monthly_variation" :>
                   (IF Len(months) > 1 THEN SampleVariance(counts) ELSE Num(0)),
             <<>>,
             <<>>)

\* the default threshold of _detect_outliers
DefaultThreshold == 2

_detect_outliers(data) ==
    LET temp_outliers ==
            _detect_series_outliers(Series(data.col[TempCol], 0), Num(DefaultThreshold))
        humidity_outliers ==
            _detect_series_outliers(Series(data.col[HumCol], 0), Num(DefaultThreshold))
        total == Len(temp_outliers) + Len(humidity_outliers)
        picked(cells, at) == [i \in 1..Len(at) |-> cells[at[i] + 1]]
    IN  Part("outlier_analysis.temperature_outliers.count" :> Num(Len(temp_outliers))
             @@ "outlier_analysis.humidity_outliers.count" :> Num(Len(humidity_outliers))
             @@ "outlier_analysis.total_outliers" :> Num(total)
             @@ "outlier_analysis.outlier_percentage" :>
                   RoundRat(Rat(total * 100, data.nrows * 2), 1),
             <<>>,
             "outlier_analysis.temperature_outliers.indices" :> temp_outliers
             @@ "outlier_analysis.temperature_outliers.values" :>
                   picked(data.col[TempCol], temp_outliers)
             @@ "outlier_analysis.temperature_outliers.dates" :>
                   picked(data.col[DateCol], temp_outliers)
             @@ "outlier_analysis.humidity_outliers.indices" :> humidity_outliers
             @@ "outlier_analysis.humidity_outliers.values" :>
                   picked(data.col[HumCol], humidity_outliers)
             @@ "outlier_analysis.humidity_outliers.dates" :>
                   picked(data.col[DateCol], humidity_outliers))

\* the entry without its R-squared and its significance
TrendFieldsSlopeOnly(quantity, entry) ==
    LET at == "trend_analysis." \o quantity
    IN  Part((at \o ".slope") :> entry.slope,
             (at \o ".direction") :> entry.direction
             @@ (at \o ".strength") :> entry.strength,
             <<>>)

\* the entry trends[quantity] as fields of the result
TrendFields(quantity, entry) ==
    LET at == "trend_analysis." \o quantity
    IN  Part((at \o ".slope") :> entry.slope
             @@ (at \o ".r_squared") :> entry.r_squared,
             (at \o ".direction") :> entry.direction
             @@ (at \o ".strength") :> entry.strength
             @@ (at \o ".significance") :> entry.significance,
             <<>>)

NoPart == Part(<<>>, <<>>, <<>>)

\* _analyze_trends: its outcomes; an entry per quantity only when the table
\* has more than one row
_analyze_trends(data) ==
    IF data.nrows > 1
    THEN {IF t.kind = "raise" \/ h.kind = "raise"
          THEN Exception("LinAlgError", NoPart)
          ELSE Value(MergeParts(<<TrendFields("temperature", t.value),
                                  TrendFields("humidity", h.value)>>)) :
             t \in TrendEntry(data.col[TempCol], "temperature"),
             h \in TrendEntry(data.col[HumCol], "humidity")}
    ELSE {Value(NoPart)}

\* Series.corr(other), Pearson, over the rows where both values are present,
\* through the sign-preserving square; missing for fewer than two such rows
\* and for a series without variation
Correlation(x, y) ==
    LET both == {k \in 1..Len(x) : ~IsNaN(x[k]) /\ ~IsNaN(y[k])}
        xs   == CellsAt(x, both)
        ys   == CellsAt(y, both)
        mx   == MeanRat(xs)
        my   == MeanRat(ys)
        cov  == SumRat([k \in 1..Len(xs) |->
                          MulRat(SubRat(xs[k], mx), SubRat(ys[k], my))])
        vx   == SumSquares(xs, mx)
        vy   == SumSquares(ys, my)
    IN  IF Cardinality(both) < 2 THEN NaN
        ELSE IF vx = Num(0) \/ vy = Num(0) THEN NaN
        ELSE LET r2 == DivRat(SquareRat(cov), MulRat(vx, vy))
             IN  IF cov[1] < 0 THEN NegRat(r2) ELSE r2

\* abs(corr) >= 0.7 strong, >= 0.3 moderate, else weak (corr squared: 0.49, 0.09)
_interpret_correlation(corr) ==
    IF ~IsNaN(corr) /\ ~LessRat(AbsRat(corr), <<49, 100>>) THEN "strong"
    ELSE IF ~IsNaN(corr) /\ ~LessRat(AbsRat(corr), <<9, 100>>) THEN "moderate"
    ELSE "weak"

CorrelationFields(name, corr) ==
    LET at == "correlation_analysis." \o name
    IN  Part((at \o ".correlation") :> corr,
             (at \o ".strength") :> _interpret_correlation(corr)
             @@ (at \o ".direction") :>
                   (IF ~IsNaN(corr) /\ corr[1] < 0 THEN "negative" ELSE "positive"),
             <<>>)

_analyze_correlations(data) ==
    LET time_series == [k \in 1..data.nrows |-> Num(k - 1)]
    IN  MergeParts(<<
          CorrelationFields("temperature_humidity",
                            Correlation(data.col[TempCol], data.col[HumCol])),
          CorrelationFields("time_temperature",
                            Correlation(data.col[TempCol], time_series)),
          CorrelationFields("time_humidity",
                            Correlation(data.col[HumCol], time_series))>>)

\* _calculate_daily_changes: changes = series.diff().dropna()
_calculate_daily_changes(cells, at) ==
    LET diffs   == [k \in 1..Len(cells) |->
                      IF k > 1 /\ ~IsNaN(cells[k]) /\ ~IsNaN(cells[k - 1])
                      THEN SubRat(cells[k], cells[k - 1]) ELSE NaN]
        changes == DropNa(diffs)
        srt     == SortSeq(changes, LessRat)
        count(P(_)) == Num(Cardinality({k \in 1..Len(changes) : P(changes[k])}))
    IN  (at \o ".daily_changes.mean_change") :> RoundRat(MeanRat(changes), 2)
        @@ (at \o ".daily_changes.max_increase") :>
              (IF changes = <<>> THEN NaN ELSE RoundRat(srt[Len(srt)], 2))
        @@ (at \o ".daily_changes.max_decrease") :>
              (IF changes = <<>> THEN NaN ELSE RoundRat(srt[1], 2))
        @@ (at \o ".daily_changes.positive_changes") :> count(LAMBDA c : c[1] > 0)
        @@ (at \o ".daily_changes.negative_changes") :> count(LAMBDA c : c[1] < 0)
        @@ (at \o ".daily_changes.no_change") :> count(LAMBDA c : c[1] = 0)

\* the entry volatility[quantity]: cv > high is high, cv > medium moderate
VolatilityFields(cells, quantity, high, medium) ==
    LET at   == "volatility_analysis." \o quantity
        var  == SampleVariance(cells)
        mean == MeanRat(cells)
        cv   == IF mean # Num(0) THEN CvSquared(var, mean) ELSE Num(0)
    IN  Part((at \o ".std") :> var
             @@ (at \o ".coefficient_of_variation") :> cv
             @@ _calculate_daily_changes(cells, at),
             (at \o ".level") :>
                (IF GreaterRat(cv, Num(high * high)) THEN "high"
                 ELSE IF GreaterRat(cv, Num(medium * medium)) THEN "moderate"
                 ELSE "low"),
             <<>>)

_analyze_volatility(data) ==
    MergeParts(<<VolatilityFields(data.col[TempCol], "temperature", 30, 15),
                 VolatilityFields(data.col[HumCol], "humidity", 25, 12)>>)

\* what analyze_30day_data hands back
Analysis(kind, sections, part, error) ==
    [kind |-> kind, sections |-> sections, numbers |-> part.numbers,
     labels |-> part.labels, lists |-> part.lists, error |-> error]

\* analyze_30day_data: its outcomes.  if data.empty: return {}; otherwise
\* the dictionary of the eight sections
analyze_30day_data(data) ==
    IF IsEmpty(data) THEN {Analysis("return", {}, NoPart, "")}
    ELSE {IF trends.kind = "raise"
          THEN Analysis("raise", {}, NoPart, trends.error)
          ELSE Analysis("return", SectionNames,
                        MergeParts(<<_get_basic_info(data),
                                     _analyze_temperature(data),
                                     _analyze_humidity(data),
                                     _analyze_monthly_patterns(data, primary),
                                     _detect_outliers(data),
                                     trends.value,
                                     _analyze_correlations(data),
                                     _analyze_volatility(data)>>),
                        "") :
             trends \in _analyze_trends(data),
             primary \in MostCommonMonths(data)}

----------------------------------------------------------------------------
(* Inputs of the forecaster *)

\* the date of the oldest row of an input series (2025-06-09)
FirstDay == 160

Patterns == {"flat", "rising"}

Orders == {"oldest_first", "newest_first"}

\* the series lengths tried: empty, very short, and around the 14-row limit
Lengths == {0, 1, 2} \cup ((MinRows - 1)..MaxLen)

\* what the regressors may answer, in hundredths (far outside the clamps too)
RegressorOutputs == {-9999, 2346, 9999}

Reverse(s) == [k \in 1..Len(s) |-> s[Len(s) - k + 1]]

\* a series of n rows on consecutive days
SeriesRows(n, pattern, order) ==
    LET asc == [k \in 1..n |->
                  [date        |-> FirstDay + k - 1,
                   temperature |-> IF pattern = "flat" THEN 20 ELSE 10 + k,
                   humidity    |-> IF pattern = "flat" THEN 50 ELSE 80 - 2 * k]]
    IN  IF order = "oldest_first" THEN asc ELSE Reverse(asc)

InputSeries ==
    {SeriesRows(n, p, o) : n \in Lengths, p \in Patterns, o \in Orders}

\* the series whose feature table is handed to the evaluation
EvaluatedSeries == {rows \in InputSeries : Len(rows) \in {1, 2}}

(* Inputs of the analysis *)

\* longest series of arbitrary rows handed to analyze_30day_data
MaxAnalyzeLen == 2

\* the (temperature, humidity) cells of the rows tried, some missing
AnalyzerValues ==
    {<<Num(20), Num(50)>>, <<Num(23), Num(44)>>, <<Num(0), Num(0)>>,
     <<NaN, Num(50)>>, <<Num(20), NaN>>}

\* cells a tenth of a unit apart: slopes inside and outside the limits of
\* direction and strength
SlopedValues ==
    {<<Num(20), Num(50)>>, <<Rat(102, 5), Rat(254, 5)>>,
     <<Rat(401, 20), Rat(103, 2)>>}

\* n rows on consecutive days with the cells v[1], .., v[n]
LoadedRows(n, v) ==
    [k \in 1..n |-> [date        |-> FirstDay + k - 1,
                     temperature |-> v[k][1],
                     humidity    |-> v[k][2]]]

\* all short series, the full period of constant temperature 20.0 and
\* humidity 50.0, and the pairs of rows with small slopes
AnalyzerSeries ==
    UNION {{LoadedRows(n, v) : v \in [1..n -> AnalyzerValues]} :
              n \in 0..MaxAnalyzeLen}
    \cup {LoadedRows(FullPeriod, [k \in 1..FullPeriod |-> <<Num(20), Num(50)>>])}
    \cup {LoadedRows(2, v) : v \in [1..2 -> SlopedValues]}

----------------------------------------------------------------------------
(* State *)

VARIABLES
    heap,                \* the live tables
    historical_data,     \* reference to the caller's series, 0 when none
    days_ahead,          \* argument of predict_weather
    pc,                  \* position inside predict_weather
    data_with_features,  \* reference to the feature table, 0 when none
    weights,             \* the weight vector
    available_features,  \* the feature columns found in the table
    predictions,         \* the rows produced so far
    last_date,           \* historical_data['date'].max()
    step,                \* loop variable i
    pred_features,       \* the feature row built last
    scaler_fits,         \* calls of self.scaler.fit_transform in this call
    result,              \* what the call returned or raised
    temp_model,          \* self.temp_model
    humidity_model,      \* self.humidity_model
    scaler,              \* self.scaler
    is_trained,          \* self.is_trained
    feature_importance,  \* self.feature_importance
    analysis,            \* what analyze_30day_data returned
    metrics,             \* the st.metric labels the evaluation displayed
    feat_pc,             \* feature-table check: "input" or "built"
    feat_heap,           \* its tables: 1 the series S, 2 the longer series S'
    feat_short,          \* reference to create_advanced_features(S)
    feat_long,           \* reference to create_advanced_features(S')
    w_pc,                \* weight check: "input" or "computed"
    w_n,                 \* its number of rows
    w_decay,             \* its decay factor <<p, q>>
    w_weights,           \* calculate_time_weights(w_n, w_decay)
    clean_pc,            \* clean_data check: "input" or "cleaned"
    clean_in,            \* the table handed to clean_data
    clean_out,           \* the table clean_data returned
    st_pc,               \* statistics check: "input", "detected" or "fitted"
    st_series,           \* the Series handed to the detectors and the fit
    st_threshold,        \* the threshold of the detectors
    st_outliers,         \* what _detect_series_outliers returned
    st_utils_outliers,   \* what utils.detect_outliers returned
    st_trend,            \* the trend entry of the series, or the exception
    st_r2,               \* what _calculate_r_squared returned or raised
    st_temperature,      \* what _analyze_temperature returned
    inv,                 \* interleaving: the locals of each invocation
    shared,              \* interleaving: the attributes of the predictor
    ld_pc,               \* loader: "idle" or "loaded"
    ld_request,          \* loader: the call and its arguments
    ld_api,              \* loader: what get_weather_data answered
    ld_calls,            \* loader: calls of get_weather_data in this call
    ld_out,              \* loader: the rows handed to the caller
    ld_cache             \* loader: st.cache_data of load_30day_data

selfVars == <<temp_model, humidity_model, scaler, is_trained, feature_importance>>

localVars == <<data_with_features, weights, available_features, predictions,
               last_date, step, pred_features, scaler_fits>>

predVars == <<heap, historical_data, days_ahead, pc, result, analysis,
              metrics, localVars, selfVars>>

featVars == <<feat_pc, feat_heap, feat_short, feat_long>>

weightVars == <<w_pc, w_n, w_decay, w_weights>>

cleanVars == <<clean_pc, clean_in, clean_out>>

statVars == <<st_pc, st_series, st_threshold, st_outliers, st_utils_outliers,
              st_trend, st_r2, st_temperature>>

threadVars == <<inv, shared>>

loadVars == <<ld_pc, ld_request, ld_api, ld_calls, ld_out, ld_cache>>

vars == <<predVars, featVars, weightVars, cleanVars, statVars, threadVars,
          loadVars>>

\* the feature-table check is not running
FeatIdle ==
    /\ feat_pc = "off"
    /\ feat_heap = <<>>
    /\ feat_short = 0
    /\ feat_long = 0

\* the weight check is not running
WeightIdle ==
    /\ w_pc = "off"
    /\ w_n = 0
    /\ w_decay = <<0, 1>>
    /\ w_weights = NoWeights

\* the clean_data check is not running
CleanIdle ==
    /\ clean_pc = "off"
    /\ clean_in = [columns |-> <<>>, rows |-> <<>>]
    /\ clean_out = [columns |-> <<>>, rows |-> <<>>]

NoOutcome(blank) == [kind |-> "none", value |-> blank, error |-> ""]

\* the statistics check is not running
StatIdle ==
    /\ st_pc = "off"
    /\ st_series = Series(<<>>, 0)
    /\ st_threshold = Num(0)
    /\ st_outliers = <<>>
    /\ st_utils_outliers = <<>>
    /\ st_trend = NoOutcome(NoTrend)
    /\ st_r2 = NoOutcome(NaN)
    /\ st_temperature = Part(<<>>, <<>>, <<>>)

\* what a call hands back: a table (its rows) or an exception
NoResult == [kind |-> "none", rows |-> <<>>, error |-> ""]

Returned(rows) == [kind |-> "return", rows |-> rows, error |-> ""]

Raised(error) == [kind |-> "raise", rows |-> <<>>, error |-> error]

\* a call that returned None
ReturnedNone == [kind |-> "none_returned", rows |-> <<>>, error |-> ""]

Invocations == {1, 2}

\* the locals of a predict_weather invocation that has not started
NoInvocation ==
    [pc                 |-> "off",
     historical_data    |-> <<>>,
     days_ahead         |-> 0,
     data_with_features |-> EmptyFrame,
     weights            |-> NoWeights,
     available_features |-> <<>>,
     predictions        |-> <<>>,
     last_date          |-> 0,
     step               |-> 0,
     result             |-> NoResult]

\* the interleaving check is not running
ThreadIdle ==
    /\ inv = [t \in Invocations |-> NoInvocation]
    /\ shared = __init__

NoRequest == [op |-> "none", city |-> "", today |-> 0, start_date |-> 0,
              end_date |-> 0]

\* the loader check is not running
LoadIdle ==
    /\ ld_pc = "off"
    /\ ld_request = NoRequest
    /\ ld_api = <<>>
    /\ ld_calls = 0
    /\ ld_out = <<>>
    /\ ld_cache = <<>>

\* analyze_30day_data has not been called
NoAnalysis == Analysis("none", {}, NoPart, "")

\* WeatherPredictor.__init__ and no call in progress
PredictorInit ==
    /\ heap = <<>>
    /\ historical_data = 0
    /\ days_ahead = 0
    /\ pc = "idle"
    /\ data_with_features = 0
    /\ weights = NoWeights
    /\ available_features = <<>>
    /\ predictions = <<>>
    /\ last_date = 0
    /\ step = 0
    /\ pred_features = <<>>
    /\ scaler_fits = 0
    /\ result = NoResult
    /\ temp_model = __init__.temp_model
    /\ humidity_model = __init__.humidity_model
    /\ scaler = __init__.scaler
    /\ is_trained = __init__.is_trained
    /\ feature_importance = __init__.feature_importance
    /\ analysis = NoAnalysis
    /\ metrics = <<>>

----------------------------------------------------------------------------
(* predict_weather, step by step *)

ResetLocals ==
    /\ data_with_features' = 0
    /\ weights' = NoWeights
    /\ available_features' = <<>>
    /\ predictions' = <<>>
    /\ last_date' = 0
    /\ step' = 0
    /\ pred_features' = <<>>
    /\ scaler_fits' = 0

\* the caller builds a series and calls predict_weather(series, n)
CallPredict(rows, n) ==
    /\ pc = "idle"
    /\ heap' = <<Frame(rows)>>
    /\ historical_data' = 1
    /\ days_ahead' = n
    /\ result' = NoResult
    /\ pc' = "entry"
    /\ UNCHANGED <<localVars, selfVars>>
    /\ UNCHANGED <<analysis, metrics>>
    /\ UNCHANGED <<featVars, weightVars, cleanVars, statVars, threadVars,
                   loadVars>>

\* the test of the series left out: no series is turned away
NothingToPredictFromNever(series) == FALSE

\* if historical_data.empty:
NothingToPredictFrom(series) == IsEmpty(series)

\* if historical_data.empty: st.error(...); return pd.DataFrame()
CheckEmpty ==
    /\ pc = "entry"
    /\ IF NothingToPredictFrom(heap[historical_data])
       THEN /\ result' = Returned(<<>>)
            /\ pc' = "returned"
       ELSE /\ result' = result
            /\ pc' = "features"
    /\ UNCHANGED <<heap, historical_data, days_ahead, localVars, selfVars>>
    /\ UNCHANGED <<analysis, metrics>>
    /\ UNCHANGED <<featVars, weightVars, cleanVars, statVars, threadVars,
                   loadVars>>

\* data_with_features = self.create_advanced_features(historical_data)
CreateFeatures ==
    /\ pc = "features"
    /\ LET r == create_advanced_features(heap, historical_data)
       IN  /\ heap' = r.heap
           /\ data_with_features' = r.ref
    /\ pc' = "weights"
    /\ UNCHANGED <<historical_data, days_ahead, result, weights,
                   available_features, predictions, last_date, step,
                   pred_features, scaler_fits, selfVars>>
    /\ UNCHANGED <<analysis, metrics>>
    /\ UNCHANGED <<featVars, weightVars, cleanVars, statVars, threadVars,
                   loadVars>>

\* weights = self.calculate_time_weights(data_with_features, 0.92) and
\* available_features = [col for col in feature_cols if col in columns]
ComputeWeights ==
    /\ pc = "weights"
    /\ weights' = calculate_time_weights(heap[data_with_features].nrows,
                                         <<DecayNum, DecayDen>>)
    /\ available_features' =
          SelectSeq(feature_cols,
                    LAMBDA c : c \in Range(heap[data_with_features].columns))
    /\ pc' = "train_temp"
    /\ UNCHANGED <<heap, historical_data, days_ahead, result,
                   data_with_features, predictions, last_date, step,
                   pred_features, scaler_fits, selfVars>>
    /\ UNCHANGED <<analysis, metrics>>
    /\ UNCHANGED <<featVars, weightVars, cleanVars, statVars, threadVars,
                   loadVars>>

\* self.temp_model = self.train_weighted_xgboost(..., 'temperature', ...)
TrainTemperature ==
    /\ pc = "train_temp"
    /\ LET t == train_weighted_xgboost(heap[data_with_features], "temperature",
                                       available_features, weights)
       IN  /\ temp_model' = t.model
           /\ scaler' = t.scaler
    /\ scaler_fits' = scaler_fits + 1
    /\ pc' = "train_humidity"
    /\ UNCHANGED <<heap, historical_data, days_ahead, result,
                   data_with_features, weights, available_features,
                   predictions, last_date, step, pred_features,
                   humidity_model, is_trained, feature_importance>>
    /\ UNCHANGED <<analysis, metrics>>
    /\ UNCHANGED <<featVars, weightVars, cleanVars, statVars, threadVars,
                   loadVars>>

\* self.humidity_model = ...; self.is_trained = True; feature importance;
\* predictions = []; last_date = historical_data['date'].max()
TrainHumidity ==
    /\ pc = "train_humidity"
    /\ LET t == train_weighted_xgboost(heap[data_with_features], "humidity",
                                       available_features, weights)
       IN  /\ humidity_model' = t.model
           /\ scaler' = t.scaler
    /\ scaler_fits' = scaler_fits + 1
    /\ is_trained' = TRUE
    /\ feature_importance' = [temperature |-> available_features,
                              humidity    |-> available_features]
    /\ predictions' = <<>>
    /\ last_date' = MaxSeq(Ints(heap[historical_data].col[DateCol]))
    /\ step' = 1
    /\ pc' = "loop"
    /\ UNCHANGED <<heap, historical_data, days_ahead, result,
                   data_with_features, weights, available_features,
                   pred_features, temp_model>>
    /\ UNCHANGED <<analysis, metrics>>
    /\ UNCHANGED <<featVars, weightVars, cleanVars, statVars, threadVars,
                   loadVars>>

\* one iteration of for i in range(1, days_ahead + 1); scaler.transform
\* raises ValueError when the row has not the width the scaler was fitted on
PredictStep ==
    /\ pc = "loop"
    /\ step <= days_ahead
    /\ LET pred_date == last_date + step
           f == _create_prediction_features(heap[data_with_features], pred_date)
       IN  /\ pred_features' = f
           /\ IF Len(f) # scaler.n_features_in
              THEN /\ result' = Raised("ValueError")
                   /\ pc' = "returned"
                   /\ UNCHANGED <<predictions, step>>
              ELSE /\ \E pred_temp \in RegressorOutputs :
                       \E pred_humidity \in RegressorOutputs :
                          predictions' =
                             Append(predictions,
                                    ForecastRow(pred_date, pred_temp, pred_humidity))
                   /\ step' = step + 1
                   /\ UNCHANGED <<result, pc>>
    /\ UNCHANGED <<heap, historical_data, days_ahead, data_with_features,
                   weights, available_features, last_date, scaler_fits,
                   selfVars>>
    /\ UNCHANGED <<analysis, metrics>>
    /\ UNCHANGED <<featVars, weightVars, cleanVars, statVars, threadVars,
                   loadVars>>

\* predictions_df = pd.DataFrame(predictions); evaluation and charts read
\* the models; return predictions_df
FinishPredict ==
    /\ pc = "loop"
    /\ step > days_ahead
    /\ LET e == _evaluate_model_performance(is_trained, scaler,
                                            heap[data_with_features],
                                            available_features)
       IN  /\ metrics' = e.shown
           /\ result' = IF e.kind = "raise" THEN Raised(e.error)
                                            ELSE Returned(predictions)
    /\ pc' = "returned"
    /\ UNCHANGED <<heap, historical_data, days_ahead, localVars, selfVars>>
    /\ UNCHANGED analysis
    /\ UNCHANGED <<featVars, weightVars, cleanVars, statVars, threadVars,
                   loadVars>>

\* the caller takes the result; the call's locals are gone
\* the caller builds a series and calls analyze_30day_data(series)
CallAnalyze(rows) ==
    /\ pc = "idle"
    /\ heap' = <<LoadedFrame(rows)>>
    /\ historical_data' = 1
    /\ \E a \in analyze_30day_data(LoadedFrame(rows)) : analysis' = a
    /\ pc' = "analyzed"
    /\ UNCHANGED <<days_ahead, result, metrics, localVars, selfVars>>
    /\ UNCHANGED <<featVars, weightVars, cleanVars, statVars, threadVars,
                   loadVars>>

\* the caller builds the feature table of a series and calls
\* _evaluate_model_performance(table, columns) on the predictor
CallEvaluate(rows) ==
    /\ pc = "idle"
    /\ LET r == create_advanced_features(<<Frame(rows)>>, 1)
           cols == SelectSeq(feature_cols,
                             LAMBDA c : c \in Range(r.heap[r.ref].columns))
           e == _evaluate_model_performance(is_trained, scaler,
                                            r.heap[r.ref], cols)
       IN  /\ heap' = r.heap
           /\ historical_data' = 1
           /\ metrics' = e.shown
           /\ result' = IF e.kind = "raise" THEN Raised(e.error)
                                            ELSE ReturnedNone
    /\ pc' = "evaluated"
    /\ UNCHANGED <<days_ahead, analysis, localVars, selfVars>>
    /\ UNCHANGED <<featVars, weightVars, cleanVars, statVars, threadVars,
                   loadVars>>

ReturnToCaller ==
    /\ pc \in {"returned", "analyzed", "evaluated"}
    /\ pc' = "idle"
    /\ heap' = <<>>
    /\ historical_data' = 0
    /\ days_ahead' = 0
    /\ result' = NoResult
    /\ ResetLocals
    /\ UNCHANGED selfVars
    /\ analysis' = NoAnalysis
    /\ metrics' = <<>>
    /\ UNCHANGED <<featVars, weightVars, cleanVars, statVars, threadVars,
                   loadVars>>

PredictNext ==
    \/ \E rows \in InputSeries : \E n \in 1..MaxDays : CallPredict(rows, n)
    \/ \E rows \in AnalyzerSeries : CallAnalyze(rows)
    \/ \E rows \in EvaluatedSeries : CallEvaluate(rows)
    \/ CheckEmpty
    \/ CreateFeatures
    \/ ComputeWeights
    \/ TrainTemperature
    \/ TrainHumidity
    \/ PredictStep
    \/ FinishPredict
    \/ ReturnToCaller

Init == PredictorInit /\ FeatIdle /\ WeightIdle /\ CleanIdle /\ StatIdle /\ ThreadIdle /\ LoadIdle

Next == PredictNext

Spec == Init /\ [][Next]_vars

----------------------------------------------------------------------------
(* The feature table of a series and of the same series with later rows    *)
(* appended                                                                *)

\* the (temperature, humidity) pairs of the rows tried
FeatValues == {<<10, 50>>, <<12, 60>>, <<12, 50>>}

\* most rows appended after the last row of S
MaxAppend == 2

\* all series of n rows on consecutive days starting at FirstDay + skip
SeriesOfLength(n, skip) ==
    {[k \in 1..n |-> [date        |-> FirstDay + skip + k - 1,
                      temperature |-> v[k][1],
                      humidity    |-> v[k][2]]] : v \in [1..n -> FeatValues]}

\* days missing between the second row and the third
FeatGaps == {0, 1}

\* the series with its rows after the second moved gap days later
WithGap(S, gap) ==
    [k \in 1..Len(S) |->
        IF k <= 2 THEN S[k] ELSE [S[k] EXCEPT !.date = @ + gap]]

FeatInit ==
    /\ PredictorInit /\ WeightIdle /\ CleanIdle /\ StatIdle /\ ThreadIdle /\ LoadIdle
    /\ feat_pc = "input"
    /\ \E n \in 1..MaxFeatLen : \E m \in 1..MaxAppend : \E gap \in FeatGaps :
         \E S \in SeriesOfLength(n, 0) : \E E \in SeriesOfLength(m, n) :
            feat_heap = <<Frame(WithGap(S, gap)), Frame(WithGap(S \o E, gap))>>
    /\ feat_short = 0
    /\ feat_long = 0

\* create_advanced_features(S) and create_advanced_features(S')
BuildFeatures ==
    /\ feat_pc = "input"
    /\ LET r1 == create_advanced_features(feat_heap, 1)
           r2 == create_advanced_features(r1.heap, 2)
       IN  /\ feat_heap' = r2.heap
           /\ feat_short' = r1.ref
           /\ feat_long' = r2.ref
    /\ feat_pc' = "built"
    /\ UNCHANGED <<predVars, weightVars, cleanVars, statVars, threadVars,
                   loadVars>>

FeatNext == BuildFeatures

SpecFeat == FeatInit /\ [][FeatNext]_vars

----------------------------------------------------------------------------
(* calculate_time_weights on its own *)

\* largest denominator of the decay factors tried
MaxDecayDen == 8

\* the decay factors in (0, 1) tried, in lowest terms, and the 0.92 of the code
Decays ==
    {d \in (1..MaxDecayDen) \X (2..MaxDecayDen) :
        d[1] < d[2] /\ GCD(d[2], d[1]) = 1}
    \cup {<<DecayNum, DecayDen>>}

WeightInit ==
    /\ PredictorInit /\ FeatIdle /\ CleanIdle /\ StatIdle /\ ThreadIdle /\ LoadIdle
    /\ w_pc = "input"
    /\ w_n \in 1..MaxWeightLen
    /\ w_decay \in Decays
    /\ w_weights = NoWeights

ComputeWeightVector ==
    /\ w_pc = "input"
    /\ w_weights' = calculate_time_weights(w_n, w_decay)
    /\ w_pc' = "computed"
    /\ UNCHANGED <<w_n, w_decay, predVars, featVars, cleanVars, statVars,
                   threadVars, loadVars>>

WeightNext == ComputeWeightVector

SpecWeights == WeightInit /\ [][WeightNext]_vars

----------------------------------------------------------------------------
(* DataLoader.clean_data.  A row of its table is a record of the columns:  *)
(* date (a day number), city, temperature and humidity (cells).            *)

CleanColumns == <<"date", "city", "temperature", "humidity">>

\* the date alone
DateOnlyKey(r) == <<r.date>>

\* the (date, city) a row is identified by: subset=['date', 'city']
DuplicateKey(r) == <<r.date, r.city>>

\* sort_values('date') uses an unstable sort: every arrangement of the rows
\* with the dates in ascending order is a possible outcome
SortOutcomes(rows) ==
    LET n == Len(rows)
        ascending(f) ==
            \A k \in 1..(n - 1) : rows[f[k]].date <= rows[f[k + 1]].date
    IN  {[k \in 1..n |-> rows[f[k]]] :
            f \in {g \in Permutations(1..n) : ascending(g)}}

\* drop_duplicates(subset): the first row of every key is kept
DropDuplicates(rows) ==
    LET keep(k) == \A j \in 1..(k - 1) : DuplicateKey(rows[j]) # DuplicateKey(rows[k])
        idx == {k \in 1..Len(rows) : keep(k)}
        nth(i) == CHOOSE k \in idx : Cardinality({j \in idx : j < k}) = i - 1
    IN  [i \in 1..Cardinality(idx) |-> rows[nth(i)]]

\* Series.mean(): over the values that are present, missing when none is
MeanPresent(cells) ==
    LET present == SelectSeq(cells, LAMBDA c : ~IsNaN(c))
    IN  IF present = <<>> THEN NaN ELSE Mean(Ints(present))

\* data[column].fillna(data[column].mean())
FillNa(rows, column) ==
    LET m == MeanPresent([k \in 1..Len(rows) |-> rows[k][column]])
    IN  [k \in 1..Len(rows) |->
            [rows[k] EXCEPT ![column] = IF IsNaN(@) THEN m ELSE @]]

\* data['month'] = data['date'].dt.month
WithMonth(rows) ==
    [k \in 1..Len(rows) |->
        [c \in DOMAIN rows[k] \cup {"month"} |->
            IF c = "month" THEN MonthOf(rows[k].date) ELSE rows[k][c]]]

\* everything clean_data does after the sort
CleanSorted(columns, sorted) ==
    LET dedup == DropDuplicates(sorted)
        t     == IF "temperature" \in Range(columns)
                 THEN FillNa(dedup, "temperature") ELSE dedup
        h     == IF "humidity" \in Range(columns)
                 THEN FillNa(t, "humidity") ELSE t
    IN  IF "month" \notin Range(columns)
        THEN [columns |-> Append(columns, "month"), rows |-> WithMonth(h)]
        ELSE [columns |-> columns, rows |-> h]

\* the tables clean_data(data) may return
clean_data(data) ==
    IF data.rows = <<>> \/ data.columns = <<>> THEN {data}
    ELSE {CleanSorted(data.columns, sorted) : sorted \in SortOutcomes(data.rows)}

CleanDates == {FirstDay, FirstDay + 1}

Cities == {"Seoul", "Busan"}

\* the (temperature, humidity) cells of the rows tried, some missing
CleanValues == {<<Num(10), Num(50)>>, <<NaN, NaN>>}

CleanRows ==
    {[date |-> d, city |-> c, temperature |-> v[1], humidity |-> v[2]] :
        d \in CleanDates, c \in Cities, v \in CleanValues}

CleanInit ==
    /\ PredictorInit /\ FeatIdle /\ WeightIdle /\ StatIdle
    /\ ThreadIdle /\ LoadIdle
    /\ clean_pc = "input"
    /\ \E n \in 0..MaxCleanLen : \E rows \in [1..n -> CleanRows] :
          clean_in = [columns |-> CleanColumns, rows |-> rows]
    /\ clean_out = [columns |-> <<>>, rows |-> <<>>]

CleanData ==
    /\ clean_pc = "input"
    /\ \E out \in clean_data(clean_in) : clean_out' = out
    /\ clean_pc' = "cleaned"
    /\ UNCHANGED <<clean_in, predVars, featVars, weightVars, statVars,
                   threadVars, loadVars>>

CleanNext == CleanData

SpecClean == CleanInit /\ [][CleanNext]_vars

----------------------------------------------------------------------------
(* The outlier detectors and the trend fit on their own *)

\* longest series of arbitrary values
MaxStatLen == 4

\* longest straight-line series
MaxLineLen == 5

\* the decimal exponent of the series whose values are a few 1e-11 apart
TinyExp == 11

\* the values of the arbitrary series, one of them missing
StatValues == {NaN, Num(20), Num(21), Num(30)}

Thresholds == {Num(-1), Num(1), Num(2)}

ArbitrarySeries ==
    UNION {[1..n -> StatValues] : n \in 0..MaxStatLen}

\* clusters whose sample standard deviation is a whole number
Clusters ==
    {[values |-> <<19, 20, 21>>, std |-> 1],
     [values |-> <<18, 20, 22>>, std |-> 2],
     [values |-> <<19, 19, 20, 21, 21>>, std |-> 1],
     [values |-> <<17, 23, 19, 21, 20, 20>>, std |-> 2],
     [values |-> <<19, 19, 19, 20, 21, 21, 21>>, std |-> 1]}

\* s with x put in front of its element p (at the end for p = Len(s) + 1)
InsertAt(s, p, x) == SubSeq(s, 1, p - 1) \o <<x>> \o SubSeq(s, p, Len(s))

\* a cluster and one value 10 cluster standard deviations above its mean
ClusterSeries ==
    UNION {{InsertAt([k \in 1..Len(c.values) |-> Num(c.values[k])], p,
                     AddRat(Mean(c.values), Num(10 * c.std))) :
               p \in 1..(Len(c.values) + 1)} : c \in Clusters}

LineIntercepts == {Num(-3), Num(0), Num(20), <<101, 2>>}

LineSlopes == {Num(-2), <<-1, 8>>, Num(0), <<1, 8>>, <<1, 3>>, Num(3)}

\* y_i = a + b * i for i = 0 .. n-1
LinearSeries ==
    {[k \in 1..n |-> AddRat(a, MulRat(b, Num(k - 1)))] :
        n \in 2..MaxLineLen, a \in LineIntercepts, b \in LineSlopes}

StatInit ==
    /\ PredictorInit /\ FeatIdle /\ WeightIdle /\ CleanIdle
    /\ ThreadIdle /\ LoadIdle
    /\ st_pc = "input"
    /\ \/ /\ st_series \in {Series(c, e) : c \in ArbitrarySeries, e \in {0, TinyExp}}
          /\ st_threshold \in Thresholds
       \/ /\ st_series \in {Series(c, 0) : c \in ClusterSeries \cup LinearSeries}
          /\ st_threshold = Num(2)
    /\ st_outliers = <<>>
    /\ st_utils_outliers = <<>>
    /\ st_trend = NoOutcome(NoTrend)
    /\ st_r2 = NoOutcome(NaN)
    /\ st_temperature = Part(<<>>, <<>>, <<>>)

\* both detectors on the series
DetectOutliers ==
    /\ st_pc = "input"
    /\ st_outliers' = _detect_series_outliers(st_series, st_threshold)
    /\ st_utils_outliers' = detect_outliers(st_series, st_threshold)
    /\ st_pc' = "detected"
    /\ UNCHANGED <<st_series, st_threshold, st_trend, st_r2, st_temperature>>
    /\ UNCHANGED <<predVars, featVars, weightVars, cleanVars, threadVars,
                   loadVars>>

\* the trend entry and the R-squared of the series taken as temperatures
FitTrend ==
    /\ st_pc = "detected"
    /\ st_series.exp10 = 0
    /\ Len(st_series.cells) > 1
    /\ \E t \in TrendEntry(st_series.cells, "temperature") : st_trend' = t
    /\ \E r \in _calculate_r_squared(st_series.cells) : st_r2' = r
    /\ st_pc' = "fitted"
    /\ UNCHANGED <<st_series, st_threshold, st_outliers, st_utils_outliers,
                   st_temperature>>
    /\ UNCHANGED <<predVars, featVars, weightVars, cleanVars, threadVars,
                   loadVars>>

\* _calculate_r_squared(series) called on a series of any length
CallRSquared ==
    /\ st_pc = "input"
    /\ st_series.exp10 = 0
    /\ \E r \in _calculate_r_squared(st_series.cells) : st_r2' = r
    /\ st_pc' = "r_squared"
    /\ UNCHANGED <<st_series, st_threshold, st_outliers, st_utils_outliers,
                   st_trend, st_temperature>>
    /\ UNCHANGED <<predVars, featVars, weightVars, cleanVars, threadVars,
                   loadVars>>

\* _analyze_temperature(data) on a table whose temperature column is the
\* series
CallAnalyzeTemperature ==
    /\ st_pc = "r_squared"
    /\ st_temperature' = QuantityAnalysis(st_series.cells, "temperature",
                                          "temperature_analysis")
    /\ st_pc' = "analyzed"
    /\ UNCHANGED <<st_series, st_threshold, st_outliers, st_utils_outliers,
                   st_trend, st_r2>>
    /\ UNCHANGED <<predVars, featVars, weightVars, cleanVars, threadVars,
                   loadVars>>

StatNext ==
    \/ DetectOutliers
    \/ FitTrend
    \/ CallRSquared
    \/ CallAnalyzeTemperature

SpecStats == StatInit /\ [][StatNext]_vars

----------------------------------------------------------------------------
(* Two invocations of predict_weather on one predictor, their steps        *)
(* interleaved.  What the regressors answer is a function of the fitted    *)
(* model and of the scaled row, so a forecast row is kept as the date and  *)
(* the training rows of the scaler and of the two models that computed it. *)

\* the series handed to the two invocations: empty, or long enough for the
\* loop
ThreadSeries ==
    {SeriesRows(n, p, "oldest_first") : n \in {0, MinRows}, p \in Patterns}

\* self.create_advanced_features(historical_data)
FeatureTable(rows) ==
    LET r == create_advanced_features(<<Frame(rows)>>, 1)
    IN  r.heap[r.ref]

LastDate(rows) == MaxSeq([k \in 1..Len(rows) |-> rows[k].date])


\* the forecast of one loop iteration, by what computed it
ComputedRow(pred_date, self) ==
    [date            |-> pred_date,
     scaler_fit_on   |-> self.scaler.fit_on,
     temp_fit_on     |-> self.temp_model.fit_on,
     humidity_fit_on |-> self.humidity_model.fit_on]

ThreadInit ==
    /\ PredictorInit /\ FeatIdle /\ WeightIdle /\ CleanIdle /\ StatIdle
    /\ LoadIdle
    /\ inv = [t \in Invocations |-> [NoInvocation EXCEPT !.pc = "idle"]]
    /\ shared = __init__

\* predict_weather(rows, n) up to the first training: the empty check, the
\* feature table, the weights and the feature columns, all of them locals
BeginInvocation(t, rows, n) ==
    /\ inv[t].pc = "idle"
    /\ IF IsEmpty(Frame(rows))
       THEN inv' = [inv EXCEPT ![t].pc = "returned",
                               ![t].days_ahead = n,
                               ![t].result = Returned(<<>>)]
       ELSE LET df == FeatureTable(rows)
            IN  inv' = [inv EXCEPT
                   ![t].pc = "train_temp",
                   ![t].historical_data = rows,
                   ![t].days_ahead = n,
                   ![t].data_with_features = df,
                   ![t].weights =
                       calculate_time_weights(df.nrows, <<DecayNum, DecayDen>>),
                   ![t].available_features =
                       SelectSeq(feature_cols,
                                 LAMBDA c : c \in Range(df.columns))]
    /\ UNCHANGED shared
    /\ UNCHANGED <<predVars, featVars, weightVars, cleanVars, statVars,
                   loadVars>>

\* self.temp_model = self.train_weighted_xgboost(..., 'temperature', ...)
TrainTemperatureOf(t) ==
    /\ inv[t].pc = "train_temp"
    /\ LET m == train_weighted_xgboost(inv[t].data_with_features,
                                       "temperature",
                                       inv[t].available_features,
                                       inv[t].weights)
       IN  shared' = [shared EXCEPT !.temp_model = m.model,
                                    !.scaler = m.scaler]
    /\ inv' = [inv EXCEPT ![t].pc = "train_humidity"]
    /\ UNCHANGED <<predVars, featVars, weightVars, cleanVars, statVars,
                   loadVars>>

\* self.humidity_model = ...; self.is_trained = True; feature importance;
\* predictions = []; last_date = historical_data['date'].max()
TrainHumidityOf(t) ==
    /\ inv[t].pc = "train_humidity"
    /\ LET m == train_weighted_xgboost(inv[t].data_with_features,
                                       "humidity",
                                       inv[t].available_features,
                                       inv[t].weights)
       IN  shared' = [shared EXCEPT
                        !.humidity_model = m.model,
                        !.scaler = m.scaler,
                        !.is_trained = TRUE,
                        !.feature_importance =
                            [temperature |-> inv[t].available_features,
                             humidity    |-> inv[t].available_features]]
    /\ inv' = [inv EXCEPT
                 ![t].pc = "loop",
                 ![t].predictions = <<>>,
                 ![t].last_date = LastDate(inv[t].historical_data),
                 ![t].step = 1]
    /\ UNCHANGED <<predVars, featVars, weightVars, cleanVars, statVars,
                   loadVars>>

\* one iteration of the loop: self.scaler.transform, self.temp_model.predict
\* and self.humidity_model.predict read the attributes as they are now
PredictStepOf(t) ==
    /\ inv[t].pc = "loop"
    /\ inv[t].step <= inv[t].days_ahead
    /\ LET pred_date == inv[t].last_date + inv[t].step
           f == _create_prediction_features(
                    inv[t].data_with_features, pred_date)
       IN  IF TransformError(shared.scaler, Len(f)) # ""
           THEN inv' = [inv EXCEPT
                          ![t].pc = "returned",
                          ![t].result =
                              Raised(TransformError(shared.scaler, Len(f)))]
           ELSE inv' = [inv EXCEPT
                          ![t].predictions =
                              Append(@, ComputedRow(pred_date, shared)),
                          ![t].step = @ + 1]
    /\ UNCHANGED shared
    /\ UNCHANGED <<predVars, featVars, weightVars, cleanVars, statVars,
                   loadVars>>

\* the evaluation reads the attributes too; return predictions_df
FinishInvocation(t) ==
    /\ inv[t].pc = "loop"
    /\ inv[t].step > inv[t].days_ahead
    /\ LET e == _evaluate_model_performance(shared.is_trained, shared.scaler,
                                            inv[t].data_with_features,
                                            inv[t].available_features)
       IN  inv' = [inv EXCEPT
                     ![t].pc = "returned",
                     ![t].result = IF e.kind = "raise"
                                   THEN Raised(e.error)
                                   ELSE Returned(inv[t].predictions)]
    /\ UNCHANGED shared
    /\ UNCHANGED <<predVars, featVars, weightVars, cleanVars, statVars,
                   loadVars>>

ThreadNext ==
    \E t \in Invocations :
        \/ \E rows \in ThreadSeries : BeginInvocation(t, rows, MaxDays)
        \/ TrainTemperatureOf(t)
        \/ TrainHumidityOf(t)
        \/ PredictStepOf(t)
        \/ FinishInvocation(t)

SpecThreads == ThreadInit /\ [][ThreadNext]_vars

----------------------------------------------------------------------------
(* The loader: load_30day_data and load_data_for_date_range.  Dates are    *)
(* day numbers; values are kept in hundredths until round(x, 1).           *)

\* the day the loader runs: one inside the summer months, one whose last
\* 30 days reach from August into September
Todays == {FirstDay + 30, FirstDay + 86}

\* the monthly base values of the generated rows
Seasonal(month) ==
    IF month \in {3, 4, 5}
    THEN [temp |-> 15, humidity |-> 55, temp_variation |-> 8,
          humidity_variation |-> 15]
    ELSE IF month \in {6, 7, 8}
    THEN [temp |-> 25, humidity |-> 70, temp_variation |-> 6,
          humidity_variation |-> 20]
    ELSE IF month \in {9, 10, 11}
    THEN [temp |-> 18, humidity |-> 60, temp_variation |-> 7,
          humidity_variation |-> 15]
    ELSE [temp |-> 2, humidity |-> 50, temp_variation |-> 6,
          humidity_variation |-> 20]

\* city_modifiers.get(city, {"temp": 0, "humidity": 0})
CityModifier(city) ==
    IF city = "Busan" THEN [temp |-> 2, humidity |-> 10]
    ELSE [temp |-> 0, humidity |-> 0]

\* what the random generator may answer for one table: the normal draws in
\* hundredths of the deviation (odd rows, even rows), the uniform draws in
\* percent of their interval
RandomDraws ==
    {[normal |-> z, uniform |-> u] :
        z \in {<<-600, -600>>, <<3, 600>>, <<600, 3>>}, u \in {0, 100}}

\* one generated row of day d, the k-th row produced
FallbackRow(city, d, k, draw) ==
    LET s == Seasonal(MonthOf(d))
        m == CityModifier(city)
        z == draw.normal[(k % 2) + 1]
        avg_temperature == 100 * (s.temp + m.temp) + z * s.temp_variation
        avg_humidity == 100 * (s.humidity + m.humidity)
                           + z * s.humidity_variation
        temp_range == 150 * s.temp_variation
        max_temperature == avg_temperature + (draw.uniform * temp_range) \div 100
        min_temperature == avg_temperature - (draw.uniform * temp_range) \div 100
        avg == Clamp(TempLow, TempHigh, avg_temperature)
        high == Clamp(TempLow, TempHigh, max_temperature)
        low == Clamp(TempLow, TempHigh, min_temperature)
    IN  [date        |-> d,
         city        |-> city,
         temperature |-> RoundTenths(avg),
         temp_max    |-> RoundTenths(IF high < avg
                                     THEN avg + 100 + 4 * draw.uniform
                                     ELSE high),
         temp_min    |-> RoundTenths(IF low > avg
                                     THEN avg - 100 - 4 * draw.uniform
                                     ELSE low),
         humidity    |-> RoundTenths(Clamp(HumLow, HumHigh, avg_humidity)),
         month       |-> MonthOf(d),
         year        |-> YearOf(d)]

\* for i in range(days): current_date = end_date - timedelta(days=i), with
\* end_date yesterday
_generate_fallback_data(city, today, days, draw) ==
    [k \in 1..days |-> FallbackRow(city, (today - 1) - (k - 1), k, draw)]

\* while current_date <= end_date: ...; current_date += timedelta(days=1)
_generate_fallback_data_for_range(city, start_date, end_date, draw) ==
    [k \in 1..(end_date - start_date + 1) |->
        FallbackRow(city, start_date + k - 1, k, draw)]

\* what get_weather_data answers when it has rows: one per requested day
ApiRows(city, start_date, end_date) ==
    [k \in 1..(end_date - start_date + 1) |->
        [date        |-> start_date + k - 1,
         city        |-> city,
         temperature |-> RoundTenths(2150),
         temp_max    |-> RoundTenths(2600),
         temp_min    |-> RoundTenths(1700),
         humidity    |-> RoundTenths(6000),
         month       |-> MonthOf(start_date + k - 1),
         year        |-> YearOf(start_date + k - 1)]]

\* get_weather_data: the rows, or an empty table on every failure
get_weather_data(city, start_date, end_date) ==
    {<<>>, ApiRows(city, start_date, end_date)}

\* the answer of the source is handed on as it is
SurfaceEmpty(answer, fallback) == answer

\* if historical_data.empty: historical_data = <generated rows>
SubstituteWhenEmpty(answer, fallback) ==
    IF answer = <<>> THEN fallback ELSE answer

\* end_date of load_data_for_date_range after "if end_date.date() >= today"
AdjustedEnd(end_date, today) ==
    IF end_date >= today THEN today - 1 ELSE end_date

LoadInit ==
    /\ PredictorInit /\ FeatIdle /\ WeightIdle /\ CleanIdle /\ StatIdle
    /\ ThreadIdle
    /\ ld_pc = "idle"
    /\ ld_request = NoRequest
    /\ ld_api = <<>>
    /\ ld_calls = 0
    /\ ld_out = <<>>
    /\ ld_cache = [c \in Cities |-> <<>>]

\* load_30day_data(city) under @st.cache_data: the stored rows when the
\* city was loaded before, else one call of the source
Load30Day(city, today, draw) ==
    /\ ld_pc = "idle"
    /\ ld_request' = [op |-> "load_30day_data", city |-> city,
                       today |-> today, start_date |-> (today - 1) - 29,
                       end_date |-> today - 1]
    /\ IF ld_cache[city] # <<>>
       THEN /\ ld_out' = ld_cache[city]
            /\ ld_api' = <<>>
            /\ ld_calls' = 0
            /\ UNCHANGED ld_cache
       ELSE \E answer \in get_weather_data(city, (today - 1) - 29, today - 1) :
              LET loaded ==
                     SubstituteWhenEmpty(answer,
                         _generate_fallback_data(city, today, FullPeriod, draw))
              IN  /\ ld_api' = answer
                  /\ ld_calls' = 1
                  /\ ld_out' = loaded
                  /\ ld_cache' = [ld_cache EXCEPT ![city] = loaded]
    /\ ld_pc' = "loaded"
    /\ UNCHANGED <<predVars, featVars, weightVars, cleanVars, statVars,
                   threadVars>>

\* load_data_for_date_range(city, start_date, end_date)
LoadRange(city, today, start_date, end_date, draw) ==
    /\ ld_pc = "idle"
    /\ ld_request' = [op |-> "load_data_for_date_range", city |-> city,
                       today |-> today, start_date |-> start_date,
                       end_date |-> end_date]
    /\ LET last == AdjustedEnd(end_date, today)
       IN  IF start_date >= last
           THEN /\ ld_out' = <<>>
                /\ ld_api' = <<>>
                /\ ld_calls' = 0
           ELSE \E answer \in get_weather_data(city, start_date, last) :
                  /\ ld_api' = answer
                  /\ ld_calls' = 1
                  /\ ld_out' =
                        SubstituteWhenEmpty(answer,
                            _generate_fallback_data_for_range(city, start_date,
                                                              last, draw))
    /\ ld_pc' = "loaded"
    /\ UNCHANGED ld_cache
    /\ UNCHANGED <<predVars, featVars, weightVars, cleanVars, statVars,
                   threadVars>>

\* the caller takes the rows
LoaderReturn ==
    /\ ld_pc = "loaded"
    /\ ld_pc' = "idle"
    /\ ld_request' = NoRequest
    /\ ld_api' = <<>>
    /\ ld_calls' = 0
    /\ ld_out' = <<>>
    /\ UNCHANGED ld_cache
    /\ UNCHANGED <<predVars, featVars, weightVars, cleanVars, statVars,
                   threadVars>>

\* st.cache_data.clear()
ClearCache ==
    /\ ld_pc = "idle"
    /\ \E c \in Cities : ld_cache[c] # <<>>
    /\ ld_cache' = [c \in Cities |-> <<>>]
    /\ UNCHANGED <<ld_pc, ld_request, ld_api, ld_calls, ld_out>>
    /\ UNCHANGED <<predVars, featVars, weightVars, cleanVars, statVars,
                   threadVars>>

LoadNext ==
    \/ \E city \in Cities : \E today \in Todays : \E draw \in RandomDraws :
          \/ Load30Day(city, today, draw)
          \/ \E start_date \in (today - MaxRange)..today :
                \E end_date \in (today - MaxRange)..(today + 1) :
                  LoadRange(city, today, start_date, end_date, draw)
    \/ LoaderReturn
    \/ ClearCache

SpecLoad == LoadInit /\ [][LoadNext]_vars

----------------------------------------------------------------------------
(* Reading a forecast *)

\* low <= c <= high for a rational cell and two integers
Within(c, low, high) == low * c[2] <= c[1] /\ c[1] <= high * c[2]

\* the positions of temp_lag_1 and humidity_lag_1 in a feature row
TempLag1Index == Len(CalendarColumns) + 1
HumLag1Index == Len(CalendarColumns) + Len(Lags) + 1

\* the caller's series of the call in progress
CallerSeries == heap[historical_data]

InCall == historical_data # 0

----------------------------------------------------------------------------
(* Claims *)

\* C1: for every non-empty series and every days_ahead n >= 1, predict_weather
\* returns exactly n rows, in order, dated max(date)+1 .. max(date)+n, each
\* marked as a forecast.
C1_ForecastShape ==
    (pc = "returned" /\ InCall /\ CallerSeries.nrows > 0) =>
        /\ result.kind = "return"
        /\ Len(result.rows) = days_ahead
        /\ \A k \in 1..Len(result.rows) :
              /\ result.rows[k].date = MaxSeq(Ints(CallerSeries.col[DateCol])) + k
              /\ result.rows[k].is_prediction

\* C2: every forecast row emitted by predict_weather has its temperature in
\* [-20, 40] and its humidity in [0, 100], whatever the regressors answer.
C2_ForecastsClamped ==
    \A k \in 1..Len(predictions) :
        /\ Within(predictions[k].temperature, -20, 40)
        /\ Within(predictions[k].humidity, 0, 100)

\* a row was emitted whose regressor answers lay above and below the limits
C2_Witness ==
    \E k \in 1..Len(predictions) :
        /\ predictions[k].temperature = Num(40)
        /\ predictions[k].humidity = Num(0)

\* C3: with days_ahead >= 2 the feature row of step i >= 2 is built from a
\* working series that holds the forecasts of steps 1..i-1, so its lag-1
\* entries are the temperature and humidity forecast at step i-1.
C3_StepSeesPreviousForecast ==
    (pc \in {"loop", "returned"} /\ Len(predictions) >= 2) =>
        /\ heap[data_with_features].nrows =
              CallerSeries.nrows + Len(predictions) - 1
        /\ pred_features[TempLag1Index] =
              predictions[Len(predictions) - 1].temperature
        /\ pred_features[HumLag1Index] =
              predictions[Len(predictions) - 1].humidity

C5_CallerSeriesUnchanged ==
    [][(InCall /\ historical_data' = historical_data) =>
          heap'[historical_data] = CallerSeries]_vars

\* a forecast was returned, the feature table has the new columns and the
\* caller's series has the columns it came with
C5_Witness ==
    /\ pc = "returned" /\ result.kind = "return" /\ Len(result.rows) >= 1
    /\ Len(heap[data_with_features].columns) > Len(RawColumns)
    /\ CallerSeries.columns = RawColumns
    /\ CallerSeries.nrows >= MinRows

\* C6: appending rows dated after the last row of S changes no feature of a
\* row of S; no feature of a row depends on a later row.
C6_FeatureCausality ==
    feat_pc = "built" =>
        \A c \in Range(AddedColumns) : \A k \in 1..feat_heap[1].nrows :
            feat_heap[feat_long].col[c][k] = feat_heap[feat_short].col[c][k]

\* C7: for a non-empty series without missing temperature or humidity, of any
\* length >= 1, no feature column of the table has a missing value.
C7_NoMissingFeature ==
    feat_pc = "built" =>
        \A c \in Range(AddedColumns) : \A k \in 1..feat_heap[1].nrows :
            ~IsNaN(feat_heap[feat_short].col[c][k])

\* C8: for n >= 1 and a decay factor d in (0, 1), calculate_time_weights
\* returns n nonnegative weights that sum to 1, strictly increase with the
\* index and satisfy weight[i] = d * weight[i+1].
C8_WeightsNormalizedIncreasing ==
    w_pc = "computed" =>
        LET W == [k \in 1..Len(w_weights.power) |-> WeightCell(w_weights, k)]
        IN  /\ Len(W) = w_n
            /\ \A k \in 1..Len(W) : W[k][2] > 0 /\ W[k][1] >= 0
            /\ SumRat(W) = Num(1)
            /\ \A k \in 1..(Len(W) - 1) :
                  /\ LessRat(W[k], W[k + 1])
                  /\ Rat(W[k][1] * w_decay[2], W[k][2]) =
                        Rat(W[k + 1][1] * w_decay[1], W[k + 1][2])
            /\ \A j, k \in 1..Len(W) :
                  LessRat(W[j], W[k]) <=> w_weights.power[j] > w_weights.power[k]

\* the weights of a vector of at least three rows were computed
C8_Witness ==
    /\ w_pc = "computed"
    /\ w_n >= 3
    /\ w_decay = <<DecayNum, DecayDen>>
    /\ WeightCell(w_weights, 1)[1] > 0

\* C9: predict_weather orders its input by date before use: in whatever
\* order the rows are supplied, the weights increase with the date, and the
\* row of the latest date is the one used as the most recent value.
\* (For a decay factor in (0, 1) a weight is smaller exactly when its power
\* is larger: C8.)
C9_WeightsFollowDates ==
    (InCall /\ pc \in {"train_temp", "train_humidity", "loop", "returned"}
            /\ data_with_features # 0) =>
        LET df == heap[data_with_features]
            d  == Ints(df.col[DateCol])
        IN  /\ \A j, k \in 1..df.nrows :
                  d[j] < d[k] => weights.power[j] > weights.power[k]
            /\ (pred_features # <<>> /\ df.nrows >= MinRows) =>
                  \E k \in 1..df.nrows :
                      /\ d[k] = MaxSeq(d)
                      /\ pred_features[TempLag1Index] = df.col[TempCol][k]

\* C10: for a non-empty table clean_data returns rows in ascending date
\* order, at most one row per (date, city), and every (date, city) of the
\* input is still present.
C10_CleanSortedUnique ==
    (clean_pc = "cleaned" /\ clean_in.rows # <<>>) =>
        LET out == clean_out.rows
            inp == clean_in.rows
        IN  /\ \A k \in 1..(Len(out) - 1) : out[k].date <= out[k + 1].date
            /\ \A j, k \in 1..Len(out) :
                  (out[j].date = out[k].date /\ out[j].city = out[k].city) => j = k
            /\ \A k \in 1..Len(inp) :
                  \E j \in 1..Len(out) :
                      out[j].date = inp[k].date /\ out[j].city = inp[k].city

\* a table given newest first with a repeated (date, city) and a second city
\* on the same date was cleaned
C10_Witness ==
    /\ clean_pc = "cleaned"
    /\ Len(clean_in.rows) >= 3
    /\ clean_in.rows[1].date > clean_in.rows[2].date
    /\ Len(clean_out.rows) < Len(clean_in.rows)
    /\ \E j, k \in 1..Len(clean_out.rows) :
          /\ clean_out.rows[j].date = clean_out.rows[k].date
          /\ clean_out.rows[j].city # clean_out.rows[k].city

\* the sample variance of cells without missing value, from the moments:
\* (n * sum x^2 - (sum x)^2) / (n * (n - 1))
VarianceByMoments(cells) ==
    LET n  == Len(cells)
        s1 == SumRat(cells)
        s2 == SumRat([k \in 1..n |-> SquareRat(cells[k])])
    IN  DivRat(SubRat(MulRat(Num(n), s2), SquareRat(s1)), Num(n * (n - 1)))

IsConstant(cells) == \A j, k \in 1..Len(cells) : cells[j] = cells[k]

\* the positions (from 0) of the values present whose distance from the mean
\* of the values present exceeds threshold standard deviations
ZScorePositions(cells, threshold) ==
    LET present == DropNa(cells)
        mean == DivRat(SumRat(present), Num(Len(present)))
        var  == VarianceByMoments(present)
    IN  Ascending({i \in 0..(Len(cells) - 1) :
            /\ ~IsNaN(cells[i + 1])
            /\ \/ threshold[1] < 0
               \/ LessRat(MulRat(SquareRat(threshold), var),
                          SquareRat(SubRat(cells[i + 1], mean)))})

\* C11 as stated: the detectors return nothing for a constant series and for
\* fewer than 2 values present; for every other series they return exactly
\* the positions of the values present with |x - mean| / std > threshold.
C11_OutliersByZScore ==
    st_pc = "detected" =>
        LET present  == DropNa(st_series.cells)
            expected == IF Len(present) < 2 \/ IsConstant(present) THEN <<>>
                        ELSE ZScorePositions(st_series.cells, st_threshold)
        IN  /\ st_outliers = expected
            /\ st_utils_outliers = expected

\* C11 amended: the detectors return nothing for a constant series, for fewer
\* than 2 values present and for a series whose sample standard deviation is
\* below 1e-10; for every other series they return exactly the positions, in
\* ascending order, of the values present with |x - mean| / std > threshold
\* (mean and sample standard deviation of the values present).
C11_OutliersByZScoreAboveFloor ==
    st_pc = "detected" =>
        LET present  == DropNa(st_series.cells)
            expected ==
                IF Len(present) < 2 \/ IsConstant(present) THEN <<>>
                ELSE IF BelowStdFloor(VarianceByMoments(present), st_series.exp10)
                     THEN <<>>
                ELSE ZScorePositions(st_series.cells, st_threshold)
        IN  /\ st_outliers = expected
            /\ st_utils_outliers = expected

\* a value after a missing one was flagged, at its position in the series
C11_Witness ==
    /\ st_pc = "detected"
    /\ st_threshold = Num(1)
    /\ st_series.exp10 = 0
    /\ Len(st_series.cells) >= 3
    /\ IsNaN(st_series.cells[1])
    /\ st_outliers = <<Len(st_series.cells) - 1>>
    /\ st_utils_outliers = st_outliers

\* the series without its element p
Without(s, p) == SubSeq(s, 1, p - 1) \o SubSeq(s, p + 1, Len(s))

\* the element p lies 10 cluster standard deviations above the mean of the
\* other elements (the cluster), whose standard deviation is not 0
OffsetFromCluster(cells, p) ==
    LET cluster == Without(cells, p)
        mean == DivRat(SumRat(cluster), Num(Len(cluster)))
        var  == VarianceByMoments(cluster)
    IN  /\ ~HasNaN(cells)
        /\ Len(cluster) >= 2
        /\ var # Num(0)
        /\ LessRat(mean, cells[p])
        /\ SquareRat(SubRat(cells[p], mean)) = MulRat(Num(100), var)

\* every element of the cluster is within 2 cluster standard deviations of
\* the cluster mean
TightCluster(cells, p) ==
    LET cluster == Without(cells, p)
        mean == DivRat(SumRat(cluster), Num(Len(cluster)))
        var  == VarianceByMoments(cluster)
    IN  \A k \in 1..Len(cluster) :
            ~LessRat(MulRat(Num(4), var), SquareRat(SubRat(cluster[k], mean)))

IsLinear(cells) ==
    /\ Len(cells) >= 2
    /\ ~HasNaN(cells)
    /\ \A k \in 1..Len(cells) :
          cells[k] = AddRat(cells[1], MulRat(SubRat(cells[2], cells[1]), Num(k - 1)))

LineSlope(cells) == SubRat(cells[2], cells[1])

Analyzed == pc = "analyzed" /\ InCall /\ CallerSeries.nrows > 0

\* the series has no missing value and one temperature and one humidity
ConstantSeries(df) ==
    /\ ~HasNaN(df.col[TempCol]) /\ ~HasNaN(df.col[HumCol])
    /\ IsConstant(df.col[TempCol]) /\ IsConstant(df.col[HumCol])

\* C14: for every constant series of length >= 2, analyze_30day_data reports
\* the trend direction 'stable' for temperature and for humidity, volatility 0
\* for both, and no outlier in total.
C14_ConstantSeriesStable ==
    (Analyzed /\ CallerSeries.nrows >= 2 /\ ConstantSeries(CallerSeries)) =>
        /\ analysis.kind = "return"
        /\ \A f \in {"temperature_analysis.trend_direction",
                     "humidity_analysis.trend_direction",
                     "trend_analysis.temperature.direction",
                     "trend_analysis.humidity.direction"} :
              analysis.labels[f] = "stable"
        /\ \A f \in {"temperature_analysis.volatility",
                     "humidity_analysis.volatility",
                     "volatility_analysis.temperature.std",
                     "volatility_analysis.humidity.std",
                     "volatility_analysis.temperature.coefficient_of_variation",
                     "volatility_analysis.humidity.coefficient_of_variation",
                     "outlier_analysis.total_outliers"} :
              analysis.numbers[f] = Num(0)

\* the full period of 30 rows at 20.0 degrees and 50.0 percent was analysed
C14_Witness ==
    /\ Analyzed
    /\ CallerSeries.nrows = FullPeriod
    /\ ConstantSeries(CallerSeries)
    /\ CallerSeries.col[TempCol][1] = Num(20)
    /\ analysis.kind = "return"
    /\ analysis.labels["trend_analysis.temperature.direction"] = "stable"
    /\ analysis.numbers["outlier_analysis.total_outliers"] = Num(0)

\* C15: for every non-empty series (a single row, a constant series and a
\* series with a missing temperature or humidity included) analyze_30day_data
\* returns a result in which no numeric field is NaN.
C15_NoNaNInAnalysis ==
    Analyzed =>
        /\ analysis.kind = "return"
        /\ \A f \in DOMAIN analysis.numbers : ~IsNaN(analysis.numbers[f])

TrendNumbers ==
    {"trend_analysis." \o q \o f :
        q \in {"temperature", "humidity"}, f \in {".slope", ".r_squared"}}

TrendLabels ==
    {"trend_analysis." \o q \o f :
        q \in {"temperature", "humidity"},
        f \in {".direction", ".strength", ".significance"}}

----------------------------------------------------------------------------
(* C16, C17: the predictor untrained and trained *)

Fitted(model) == model # NoModel /\ model.fit_on # NoRows

\* C16 as stated: every use of the models on an untrained predictor raises
\* ModelNotTrainedError.
C16_UntrainedUseRaises ==
    (pc = "evaluated" /\ ~is_trained)
        => result = Raised("ModelNotTrainedError")

\* C16 as the code has it: _evaluate_model_performance, the one operation
\* that tests is_trained, returns None on an untrained predictor without
\* raising and without displaying anything, and leaves the predictor as
\* __init__ made it.
C16_UntrainedEvaluationReturnsSilently ==
    (pc = "evaluated" /\ ~is_trained)
        => /\ result = ReturnedNone
           /\ metrics = <<>>
           /\ temp_model = NoModel
           /\ humidity_model = NoModel
           /\ ~scaler.fitted

C16_Witness ==
    /\ pc = "evaluated"
    /\ ~is_trained
    /\ result = ReturnedNone
    /\ metrics = <<>>
    /\ heap[historical_data].nrows = 2

\* C17: is_trained implies that both models are fitted, and a step that
\* adds a forecast row or displays evaluation figures is taken only when
\* is_trained holds.
C17_TrainedBeforePredicting ==
    /\ [](is_trained => (Fitted(temp_model) /\ Fitted(humidity_model)
                          /\ scaler.fitted))
    /\ [][(Len(predictions') > Len(predictions) \/ (metrics' # <<>>))
             => is_trained]_vars

C17_Witness ==
    /\ is_trained
    /\ pc = "loop"
    /\ Len(predictions) = MaxDays
    /\ Fitted(temp_model)
    /\ Fitted(humidity_model)

----------------------------------------------------------------------------
(* C18: interleaved invocations *)

\* C18: every forecast row of an invocation was computed by a scaler and
\* by models fitted on the invocation's own series, as when it runs alone.
C18_InvocationsIsolated ==
    \A t \in Invocations :
        \A k \in 1..Len(inv[t].predictions) :
            LET own == TrainingRows(inv[t].data_with_features)
                row == inv[t].predictions[k]
            IN  /\ row.scaler_fit_on = own
                /\ row.temp_fit_on = own
                /\ row.humidity_fit_on = own

----------------------------------------------------------------------------
(* C20: the loader when the source has no rows *)

\* the source was asked and answered an empty table
SourceEmpty == ld_pc = "loaded" /\ ld_calls = 1 /\ ld_api = <<>>

\* rows generated for the city, inside the value limits
GeneratedFor(rows, city) ==
    \A k \in 1..Len(rows) :
        /\ rows[k].city = city
        /\ rows[k].month = MonthOf(rows[k].date)
        /\ Within(rows[k].temperature, TempLow, TempHigh)
        /\ Within(rows[k].humidity, HumLow, HumHigh)

\* C20 as stated: when the source has no rows the loader hands an empty
\* series to its caller.
C20_EmptySourceSurfaced == SourceEmpty => ld_out = <<>>

\* C20 as the code has it: the source is asked at most once per call (no
\* retry); when it answers no rows, load_30day_data returns 30 generated
\* rows, one per day from yesterday backwards, and
\* load_data_for_date_range returns one generated row per day of the range,
\* oldest first; rows of the source are handed on unchanged; the loader
\* returns an empty table only for a range whose start is not before its
\* end.
C20_EmptySourceSubstituted ==
    ld_pc = "loaded" =>
        /\ ld_calls <= 1
        /\ (ld_calls = 1 /\ ld_api # <<>>) => ld_out = ld_api
        /\ SourceEmpty =>
              /\ GeneratedFor(ld_out, ld_request.city)
              /\ IF ld_request.op = "load_30day_data"
                 THEN /\ Len(ld_out) = FullPeriod
                      /\ \A k \in 1..Len(ld_out) :
                            ld_out[k].date = ld_request.today - k
                 ELSE /\ Len(ld_out) =
                            AdjustedEnd(ld_request.end_date, ld_request.today)
                               - ld_request.start_date + 1
                      /\ \A k \in 1..Len(ld_out) :
                            ld_out[k].date = ld_request.start_date + k - 1
        /\ (ld_out = <<>>) <=>
              /\ ld_request.op = "load_data_for_date_range"
              /\ ld_request.start_date >=
                     AdjustedEnd(ld_request.end_date, ld_request.today)

C20_Witness ==
    /\ SourceEmpty
    /\ ld_request.op = "load_30day_data"
    /\ Len(ld_out) = FullPeriod
    /\ ld_out[1].month # ld_out[FullPeriod].month
    /\ ld_out[1].temperature # ld_out[2].temperature

----------------------------------------------------------------------------
(* C21: the scaler inside one predict_weather call *)

\* C21 as stated: the scaler is fitted once in a call.
C21_ScalerFitOnce == pc = "loop" => scaler_fits = 1

\* C21 as the code has it: the scaler is fitted twice in a call, once in
\* the training of each model (so it is fitted again between the training
\* of the temperature model and that model's use), both times on the
\* feature matrix of the call; in the loop it is the transform of that
\* matrix, the one both models were trained with, and the loop leaves it
\* unchanged.
C21_ScalerFitPerModelOnSameMatrix ==
    /\ [](pc = "train_humidity" => scaler_fits = 1)
    /\ [](pc = "loop" =>
             /\ scaler_fits = 2
             /\ scaler.fitted
             /\ scaler.n_features_in = Len(available_features)
             /\ scaler.fit_on = TrainingRows(heap[data_with_features])
             /\ temp_model.fit_on = scaler.fit_on
             /\ humidity_model.fit_on = scaler.fit_on)
    /\ [][pc = "loop" => scaler' = scaler]_vars

C21_Witness ==
    /\ pc = "loop"
    /\ scaler_fits = 2
    /\ Len(predictions) = MaxDays
    /\ scaler.fit_on = TrainingRows(heap[data_with_features])

----------------------------------------------------------------------------
(* C22, C24: lags and rolling windows of the feature table *)

\* the feature table of the longer series and its raw columns
Built == feat_heap[feat_long]

\* the rows of the table dated d
RowsDated(df, d) == {j \in 1..df.nrows : df.col[DateCol][j] = Num(d)}

\* C22: in every row dated D, temp_lag_k and humidity_lag_k are the values
\* of the row dated D - k whenever the series has such a row, date gaps
\* included.
C22_LagsByDate ==
    feat_pc = "built" =>
        \A i \in 1..Built.nrows : \A k \in Range(Lags) :
            \A j \in RowsDated(Built, Built.col[DateCol][i][1] - k) :
                /\ Built.col[<<"temperature", "lag", k>>][i] = Built.col[TempCol][j]
                /\ Built.col[<<"humidity", "lag", k>>][i] = Built.col[HumCol][j]

----------------------------------------------------------------------------
(* C23: the lag entries of the feature row of a forecast date *)

\* rows on consecutive days, oldest first
GapFreeAscending(df) ==
    \A i \in 2..df.nrows :
        df.col[DateCol][i][1] = df.col[DateCol][i - 1][1] + 1

\* the lag entries of the feature row are the k-th most recent values, for
\* every lag k the table is long enough for
LagsAreRecentValues(row, df) ==
    \A k \in 1..Len(Lags) :
        Lags[k] <= df.nrows =>
            /\ row[Len(CalendarColumns) + k] = FromEnd(df.col[TempCol], Lags[k])
            /\ row[Len(CalendarColumns) + Len(Lags) + k] =
                   FromEnd(df.col[HumCol], Lags[k])

\* C23: for a gap-free series of m rows the lag-k entries of the feature
\* row are the k-th most recent temperature and humidity for every lag
\* k <= m, also when m < 14.
C23_PredictionLagsRecent ==
    (pred_features # <<>> /\ GapFreeAscending(heap[data_with_features])) =>
        LagsAreRecentValues(pred_features, heap[data_with_features])

----------------------------------------------------------------------------
(* C24: the rolling mean, median and range of the feature table *)

\* the table create_advanced_features was called with
BuiltFrom == feat_heap[2]

\* the rows max(first, i-w+1)..i
WindowRows(i, w) == {j \in 1..i : j >= i - w + 1}

\* v is the r-th smallest of the values y[j], j in rows
IsRankedValue(y, rows, v, r) ==
    /\ Cardinality({j \in rows : y[j] < v}) < r
    /\ Cardinality({j \in rows : y[j] <= v}) >= r

\* cell is the mean of y over rows
IsMeanOver(cell, y, rows) ==
    LET lo == CHOOSE j \in rows : \A i \in rows : j <= i
        m  == Cardinality(rows)
    IN  cell = Rat(SumSeq([j \in 1..m |-> y[lo + j - 1]]), m)

\* cell is the median of y over rows: the mean of the two middle values
IsMedianOver(cell, y, rows) ==
    LET m == Cardinality(rows)
    IN  \E a, b \in rows :
           /\ IsRankedValue(y, rows, y[a], (m + 1) \div 2)
           /\ IsRankedValue(y, rows, y[b], (m \div 2) + 1)
           /\ cell = Rat(y[a] + y[b], 2)

\* cell is the maximum of y over rows less the minimum
IsRangeOver(cell, y, rows) ==
    \E a, b \in rows :
       /\ \A j \in rows : y[b] <= y[j] /\ y[j] <= y[a]
       /\ cell = Num(y[a] - y[b])

\* the rolling columns of the quantity q hold, in every row, the statistic
\* of the rows max(first, i-w+1)..i of the input
RollingOverWindow(q) ==
    LET y == Ints(BuiltFrom.col[RawOf(q)])
    IN  \A i \in 1..Built.nrows :
           /\ \A k \in 1..Len(MaWindows) :
                 IsMeanOver(Built.col[<<q, "ma", MaWindows[k]>>][i], y,
                            WindowRows(i, MaWindows[k]))
           /\ \A k \in 1..Len(StatWindows) :
                 /\ IsMedianOver(Built.col[<<q, "median", StatWindows[k]>>][i],
                                 y, WindowRows(i, StatWindows[k]))
                 /\ IsRangeOver(Built.col[<<q, "range", StatWindows[k]>>][i],
                                y, WindowRows(i, StatWindows[k]))

\* C24: for every row i and every window w the rolling mean, median and
\* range (maximum less minimum) are taken over exactly the rows
\* max(first, i-w+1)..i of the input; none of them is missing.
C24_RollingOverShrinkingWindow ==
    feat_pc = "built" =>
        /\ RollingOverWindow("temperature")
        /\ RollingOverWindow("humidity")
        /\ \A i \in 1..Built.nrows : \A c \in Range(Built.columns) :
              c[2] \in {"ma", "median", "range"} => ~IsNaN(Built.col[c][i])

\* a table of five rows whose window of three at the fourth row differs in
\* mean from the rows before it: both the shrinking and the sliding window
C24_Witness ==
    /\ feat_pc = "built"
    /\ Built.nrows = MaxFeatLen + MaxAppend
    /\ Built.col[<<"temperature", "ma", 3>>][2] =
           Rat(BuiltFrom.col[TempCol][1][1] + BuiltFrom.col[TempCol][2][1], 2)
    /\ Built.col[<<"temperature", "ma", 3>>][4] #
           Built.col[<<"temperature", "ma", 5>>][4]

----------------------------------------------------------------------------
(* C25: direction and strength of the trend *)

\* the direction the table of limits gives for a slope
DirectionByTable(slope, up) ==
    IF LessRat(up, slope) THEN "rising"
    ELSE IF LessRat(slope, NegRat(up)) THEN "falling"
    ELSE "stable"

\* the strength the table of limits gives for a slope
StrengthByTable(slope, strong, medium) ==
    IF LessRat(strong, AbsRat(slope)) THEN "strong"
    ELSE IF LessRat(medium, AbsRat(slope)) THEN "moderate"
    ELSE "weak"

\* both sections report, for the column cells of the quantity q, the
\* direction and the strength of the table for the fitted slope
TrendLabelsByTable(q, cells, up, strong, medium) ==
    LET slope == LeastSquares(cells).slope
    IN  \A f \in {<<q \o "_analysis.trend_direction",
                    q \o "_analysis.trend_strength">>,
                  <<"trend_analysis." \o q \o ".direction",
                    "trend_analysis." \o q \o ".strength">>} :
           /\ analysis.labels[f[1]] = DirectionByTable(slope, up)
           /\ analysis.labels[f[2]] = StrengthByTable(slope, strong, medium)
           /\ analysis.labels[f[1]] = "stable" => analysis.labels[f[2]] = "weak"

\* C25: for a series of at least 2 values without missing value the
\* direction is rising exactly when the fitted slope is > 0.1 (temperature)
\* or > 0.5 (humidity), falling exactly when it is < -0.1 (< -0.5), stable
\* otherwise; the strength is strong exactly when |slope| > 0.5 (> 2.0),
\* moderate when |slope| > 0.2 (> 1.0), else weak; stable comes with weak;
\* temperature_analysis, humidity_analysis and trend_analysis agree.
C25_DirectionAndStrengthByTable ==
    (/\ Analyzed
     /\ CallerSeries.nrows >= 2
     /\ ~HasNaN(CallerSeries.col[TempCol] \o CallerSeries.col[HumCol])) =>
        /\ analysis.kind = "return"
        /\ TrendLabelsByTable("temperature", CallerSeries.col[TempCol],
                              <<1, 10>>, <<1, 2>>, <<1, 5>>)
        /\ TrendLabelsByTable("humidity", CallerSeries.col[HumCol],
                              <<1, 2>>, Num(2), Num(1))

\* a series whose temperature rises moderately (0.4 a day) while its
\* humidity, rising by 0.8 a day, is rising and weak
C25_Witness ==
    /\ Analyzed
    /\ CallerSeries.col[TempCol] = <<Num(20), Rat(102, 5)>>
    /\ CallerSeries.col[HumCol] = <<Num(50), Rat(254, 5)>>
    /\ analysis.kind = "return"
    /\ analysis.labels["temperature_analysis.trend_direction"] = "rising"
    /\ analysis.labels["trend_analysis.temperature.strength"] = "moderate"
    /\ analysis.labels["trend_analysis.humidity.direction"] = "rising"
    /\ analysis.labels["humidity_analysis.trend_strength"] = "weak"

----------------------------------------------------------------------------
(* C26: the coefficient of variation in the two sections *)

\* the mean of the values present is 0 or there is no value present
MeanZeroOrNotFinite(cells) ==
    DropNa(cells) = <<>> \/ MeanRat(DropNa(cells)) = Num(0)

\* both fields of the quantity q hold std / mean * 100 of the values
\* present, and 0 when their mean is 0 or not finite
CvOfQuantity(q, cells) ==
    LET present == DropNa(cells)
        shown   == analysis.numbers[q \o "_analysis.volatility"]
        listed  == analysis.numbers["volatility_analysis." \o q
                                       \o ".coefficient_of_variation"]
    IN  /\ shown = listed
        /\ MeanZeroOrNotFinite(cells) => shown = Num(0)
        /\ (~MeanZeroOrNotFinite(cells) /\ Len(present) >= 2) =>
               shown = CvSquared(SampleVariance(present), MeanRat(present))

\* C26: the volatility of temperature_analysis / humidity_analysis and the
\* coefficient_of_variation of volatility_analysis are std/mean*100, are 0
\* whenever the mean is 0 or not finite (every value missing included), and
\* are equal for the same series.
C26_CvGuardedInBothSections ==
    (Analyzed /\ analysis.kind = "return") =>
        /\ CvOfQuantity("temperature", CallerSeries.col[TempCol])
        /\ CvOfQuantity("humidity", CallerSeries.col[HumCol])

----------------------------------------------------------------------------
(* C27: slope and R-squared of series too short or without variation *)

\* the values of the series are all present and all equal
AllEqual(cells) == ~HasNaN(cells) /\ IsConstant(cells)

----------------------------------------------------------------------------
(* C28: the calendar entries of the feature row and of the training table. *)
(* A sine or cosine entry is kept as its angle in turns (angle / 2 pi).     *)

\* the turns a and b differ by a whole number of turns
SameTurn(a, b) == (a[1] * b[2] - b[1] * a[2]) % (a[2] * b[2]) = 0

\* a + b is c turns up to a whole number of turns, c = twice_c / 2
SumIsTurn(a, b, twice_c) ==
    (2 * (a[1] * b[2] + b[1] * a[2]) - twice_c * a[2] * b[2])
        % (2 * a[2] * b[2]) = 0

\* sin(2 pi a) = sin(2 pi b)
SameSine(a, b) == SameTurn(a, b) \/ SumIsTurn(a, b, 1)

\* cos(2 pi a) = cos(2 pi b)
SameCosine(a, b) == SameTurn(a, b) \/ SumIsTurn(a, b, 0)

\* the date the feature row built last was built for
FeatureRowDate ==
    IF result = Raised("ValueError") THEN last_date + step
    ELSE last_date + step - 1

\* entry j of the feature row equals the calendar column j of a training
\* row of the same date
CalendarEntryAgrees(j) ==
    LET name == CalendarColumns[j][2]
        mine == pred_features[j]
        from_training == CalendarFeature(name, FeatureRowDate)
    IN  IF name \in {"season_sin", "month_sin", "week_sin"}
        THEN SameSine(mine, from_training)
        ELSE IF name \in {"season_cos", "month_cos", "week_cos"}
        THEN SameCosine(mine, from_training)
        ELSE mine = from_training

\* C28: for every date d the calendar features _create_prediction_features
\* computes for d equal those create_advanced_features computes for a row
\* dated d, week_sin and week_cos included.
C28_CalendarFeaturesAgree ==
    pred_features # <<>> =>
        \A j \in 1..Len(CalendarColumns) : CalendarEntryAgrees(j)

----------------------------------------------------------------------------
(* C29: the feature row against the columns of the training matrix *)

\* entry j of the row is the last value of column j of the training matrix,
\* for the columns that are neither calendar nor lag
EntryIsLastOfColumn(row, df, j) ==
    LET c == available_features[j]
    IN  (c[1] # "cal" /\ c[2] # "lag") =>
            /\ j <= Len(row)
            /\ row[j] = FromEnd(df.col[c], 1)

\* C29: the feature row has one entry per training feature column (71) in
\* the order of the column list the models are trained with, for every
\* series length.
C29_RowFollowsTrainingColumns ==
    pred_features # <<>> =>
        /\ Len(available_features) = 71
        /\ Len(pred_features) = Len(available_features)
        /\ \A j \in 1..Len(available_features) :
              EntryIsLastOfColumn(pred_features, heap[data_with_features], j)

----------------------------------------------------------------------------
(* C30: predict_weather with an empty series *)

\* predict_weather is running on an empty series
InEmptyCall ==
    /\ InCall
    /\ pc \notin {"idle", "analyzed", "evaluated"}
    /\ CallerSeries.nrows = 0

\* C30: a predict_weather call with an empty series leaves temp_model,
\* humidity_model, scaler, is_trained and feature_importance as they were
\* before the call, from its first step to its return; a trained predictor
\* stays trained with its models.
C30_EmptyCallLeavesPredictor ==
    [][(InEmptyCall \/ InEmptyCall') => UNCHANGED selfVars]_vars

\* a predictor trained by an earlier call has returned from a call with an
\* empty series, still trained
C30_Witness ==
    /\ InEmptyCall
    /\ pc = "returned"
    /\ result = Returned(<<>>)
    /\ is_trained
    /\ Fitted(temp_model)
    /\ Fitted(humidity_model)
    /\ Fitted(scaler)

====
